---- MODULE Spec2Model ----
(***************************************************************************)
(* Statement upload pipeline of the transactions dashboard:                *)
(*   - src/src/app/api/upload-pdf/route.ts  (PDF text -> transactions ->   *)
(*     reconciliation against the store)                                   *)
(*   - src/src/app/api/upload-json/route.ts (JSON re-import)               *)
(*   - src/src/utils/classification.ts      (merchant classifier)          *)
(*                                                                         *)
(* Representation.  A JavaScript string is a sequence of one-character     *)
(* strings.  A JavaScript number that carries money is an integer number   *)
(* of cents (every amount the parsers accept has at most two decimals);    *)
(* NaN is the value NaN below.  A y position is an integer number of       *)
(* tenths of a unit.                                                       *)
(***************************************************************************)
EXTENDS Integers, Sequences, FiniteSets, TLC

(***************************************************************************)
(* Characters and strings                                                  *)
(***************************************************************************)
DigitChars == <<"0", "1", "2", "3", "4", "5", "6", "7", "8", "9">>
UpperChars == <<"A", "B", "C", "D", "E", "F", "G", "H", "I", "J", "K", "L", "M",
                "N", "O", "P", "Q", "R", "S", "T", "U", "V", "W", "X", "Y", "Z">>
LowerChars == <<"a", "b", "c", "d", "e", "f", "g", "h", "i", "j", "k", "l", "m",
                "n", "o", "p", "q", "r", "s", "t", "u", "v", "w", "x", "y", "z">>
Pound == "GBP"
Euro == "EUR"
Newline == "\n"

IsDigit(c) == \E i \in 1..10 : DigitChars[i] = c
IsUpper(c) == \E i \in 1..26 : UpperChars[i] = c
IsLower(c) == \E i \in 1..26 : LowerChars[i] = c
IsLetter(c) == IsUpper(c) \/ IsLower(c)
IsWs(c) == c = " " \/ c = "\t"
DigitVal(c) == (CHOOSE i \in 1..10 : DigitChars[i] = c) - 1

\* s[i], or the empty string past either end (no character equals it)
At(s, i) == IF i \in 1..Len(s) THEN s[i] ELSE ""

Min(a, b) == IF a < b THEN a ELSE b
Max(a, b) == IF a > b THEN a ELSE b
Abs(a) == IF a < 0 THEN 0 - a ELSE a

\* s.slice(a - 1, b): the characters at positions a..b that exist
Slice(s, a, b) ==
  IF Max(a, 1) > Min(b, Len(s)) THEN << >> ELSE SubSeq(s, Max(a, 1), Min(b, Len(s)))

\* length of the longest run of characters satisfying the class, from p on
WsRun(s, p) ==
  CHOOSE n \in 0..Len(s) :
    /\ \A i \in p..(p + n - 1) : IsWs(At(s, i))
    /\ ~IsWs(At(s, p + n))

DigitRun(s, p) ==
  CHOOSE n \in 0..Len(s) :
    /\ \A i \in p..(p + n - 1) : IsDigit(At(s, i))
    /\ ~IsDigit(At(s, p + n))

\* String.prototype.trim
Trim(s) ==
  IF \A i \in 1..Len(s) : IsWs(s[i]) THEN << >>
  ELSE LET a == CHOOSE i \in 1..Len(s) :
                  ~IsWs(s[i]) /\ \A j \in 1..(i - 1) : IsWs(s[j])
           b == CHOOSE i \in 1..Len(s) :
                  ~IsWs(s[i]) /\ \A j \in (i + 1)..Len(s) : IsWs(s[j])
       IN SubSeq(s, a, b)

ToLowerChar(c) ==
  IF IsUpper(c) THEN LowerChars[CHOOSE i \in 1..26 : UpperChars[i] = c] ELSE c

\* String.prototype.toLowerCase
ToLower(s) == [i \in 1..Len(s) |-> ToLowerChar(s[i])]

\* String.prototype.includes
Includes(s, sub) ==
  \E i \in 1..(Len(s) - Len(sub) + 1) : SubSeq(s, i, i + Len(sub) - 1) = sub

\* String.prototype.split on a set of one-character separators: the pieces
\* between consecutive separators
Split(s, seps) ==
  LET \* the positions of the separators, in order
      cuts == SelectSeq([i \in 1..Len(s) |-> i], LAMBDA i : s[i] \in seps)
      \* position of the k-th separator; 0 and Len + 1 bound the string
      Cut(k) == IF k = 0 THEN 0
                ELSE IF k > Len(cuts) THEN Len(s) + 1
                ELSE cuts[k]
      Pieces(n) == [k \in 1..(n + 1) |-> Slice(s, Cut(k - 1) + 1, Cut(k) - 1)]
  IN Pieces(Len(cuts))

\* String.prototype.padStart(2, '0')
PadStart2(s) == IF Len(s) >= 2 THEN s ELSE IF Len(s) = 1 THEN <<"0">> \o s ELSE <<"0", "0">>

\* keep the characters outside a set: replace(/[...]/g, '')
RECURSIVE Strip(_, _)
Strip(s, drop) ==
  IF s = << >> THEN << >>
  ELSE (IF Head(s) \in drop THEN << >> ELSE << Head(s) >>) \o Strip(Tail(s), drop)

(***************************************************************************)
(* Numbers                                                                 *)
(***************************************************************************)
\* NaN is a value no parse of the model's strings produces
NaN == -999999999
IsFinite(v) == v # NaN

RECURSIVE DigitsToNat(_)
DigitsToNat(ds) ==
  IF ds = << >> THEN 0
  ELSE DigitsToNat(SubSeq(ds, 1, Len(ds) - 1)) * 10 + DigitVal(ds[Len(ds)])

RECURSIVE NatToDigits(_)
NatToDigits(n) ==
  IF n < 10 THEN << DigitChars[n + 1] >>
  ELSE NatToDigits(n \div 10) \o << DigitChars[(n % 10) + 1] >>

\* parseFloat, result in cents: optional sign, digits, optional fraction; what
\* follows the longest numeric prefix is ignored; no digit at all gives NaN.
\* The strings of this model carry at most two fraction digits.
ParseFloat(str) ==
  LET neg == At(str, 1) = "-"
      p == IF neg THEN 2 ELSE 1
      ni == DigitRun(str, p)
      hasDot == At(str, p + ni) = "."
      nf == IF hasDot THEN DigitRun(str, p + ni + 1) ELSE 0
      ip == DigitsToNat(Slice(str, p, p + ni - 1))
      f1 == IF nf >= 1 THEN DigitVal(str[p + ni + 1]) ELSE 0
      f2 == IF nf >= 2 THEN DigitVal(str[p + ni + 2]) ELSE 0
      mag == ip * 100 + f1 * 10 + f2
  IN IF ni = 0 /\ nf = 0 THEN NaN
     ELSE IF neg THEN 0 - mag ELSE mag

\* Number.prototype.toFixed(2) of an amount of cents
ToFixed2(v) ==
  LET a == IF v < 0 THEN 0 - v ELSE v
  IN (IF v < 0 THEN <<"-">> ELSE << >>) \o NatToDigits(a \div 100) \o <<".">> \o
       << DigitChars[((a % 100) \div 10) + 1], DigitChars[(a % 10) + 1] >>

\* the amount ceiling of the parsers, in cents (value >= 50000 is rejected)
AmountCeiling == 5000000

\* a faulty amount check that lets the ceiling itself through (value > 50000)
InvalidAmountAboveCeiling(value) ==
  ~IsFinite(value) \/ value <= 0 \/ value > AmountCeiling

\* !Number.isFinite(value) || value <= 0 || value >= 50000
InvalidAmount(value) ==
  ~IsFinite(value) \/ value <= 0 \/ value >= AmountCeiling

\* Amounts are IEEE 754 doubles in the program.  An amount of c > 0 cents is the
\* double nearest to c / 100: with 2^e <= c / 100 < 2^(e + 1) it is a multiple
\* of 2^(e - 52).  DoubleScale(c) is e + 7 (one cent has e = -7).
RECURSIVE Pow2(_)
Pow2(n) == IF n = 0 THEN 1 ELSE 2 * Pow2(n - 1)

\* 2^n modulo 100
RECURSIVE Pow2Mod100(_)
Pow2Mod100(n) == IF n = 0 THEN 1 ELSE (2 * Pow2Mod100(n - 1)) % 100

DoubleScale(c) ==
  CHOOSE k \in 0..24 : 100 * Pow2(k) <= 128 * c /\ 128 * c < 100 * Pow2(k + 1)

\* the rounding error of that double, (double - c / 100), in units of
\* 2^-59 / 100: c * 2^(59 - k) is rounded to the nearest multiple of 100
DoubleError(c) ==
  LET Scaled(k) ==
        LET Rounded(r) == (IF r < 50 THEN 0 - r ELSE 100 - r) * Pow2(k)
        IN Rounded(((c % 100) * Pow2Mod100(59 - k)) % 100)
  IN Scaled(DoubleScale(c))

\* Math.abs(a - b) against 0.01 in double arithmetic, for amounts of a and b
\* cents: "less", "equal" or "greater".  The subtraction of two doubles one
\* cent apart is exact, so the difference is 0.01 plus the difference of the
\* two rounding errors, and the double 0.01 lies 12 units above 1 / 100.
CompareGapToCent(a, b) ==
  LET Sign(x) == IF x > 12 THEN "greater" ELSE IF x = 12 THEN "equal" ELSE "less"
      Adjacent(lo, hi) ==
        IF lo = 0 THEN "equal" ELSE Sign(DoubleError(hi) - DoubleError(lo))
      Of(gap) ==
        IF gap > 1 THEN "greater"
        ELSE IF gap = 0 THEN "less"
        ELSE Adjacent(Min(Abs(a), Abs(b)), Max(Abs(a), Abs(b)))
  IN Of(Abs(a - b))

(***************************************************************************)
(* The regular expressions of the parsers.  A match is a record with       *)
(* ok = TRUE and the captured groups; NoMatch has ok = FALSE.              *)
(***************************************************************************)
NoMatch == [ok |-> FALSE]

\* where the last whitespace-free token of the line starts (Len + 1: none)
TokenStart(s) ==
  CHOOSE q \in 1..(Len(s) + 1) :
    /\ \A i \in q..Len(s) : ~IsWs(s[i])
    /\ ~(q > 1 /\ ~IsWs(s[q - 1]))

\* number of whitespace characters immediately before position q
WsBefore(s, q) ==
  CHOOSE n \in 0..Len(s) :
    /\ \A i \in (q - n)..(q - 1) : IsWs(At(s, i))
    /\ ~IsWs(At(s, q - n - 1))

\* \s{minWs,}(.+?)\s{minWs,}(TOKEN)$ from position p on: the first separator
\* is greedy and gives characters back only as far as the rest needs, the
\* description is lazy, TOKEN holds no whitespace and ends the line.
LazyTail(s, p, minWs) ==
  LET W == WsRun(s, p)
      q == TokenStart(s)
      R == WsBefore(s, q)
      k == Min(W, q - 1 - minWs - p)
      a == p + k
      e == Max(a, q - 1 - R)
  IN IF q <= Len(s) /\ W >= minWs /\ R >= minWs /\ k >= minWs
     THEN [ok |-> TRUE, description |-> Slice(s, a, e), token |-> Slice(s, q, Len(s))]
     ELSE NoMatch

\* \s+(.+)$ from position p on
GreedyTail(s, p) ==
  LET W == WsRun(s, p)
      a == Min(p + W, Len(s))
  IN IF W >= 1 /\ a - p >= 1
     THEN [ok |-> TRUE, description |-> Slice(s, a, Len(s))]
     ELSE NoMatch

\* ([\d,]+\.\d{2}) over a whole token
IsAmexAmount(t) ==
  /\ Len(t) >= 4
  /\ t[Len(t) - 2] = "."
  /\ IsDigit(t[Len(t) - 1]) /\ IsDigit(t[Len(t)])
  /\ \A i \in 1..(Len(t) - 3) : IsDigit(t[i]) \/ t[i] = ","

\* ([\d,]+\.?\d{0,2}) over a whole token
IsPlainAmount(t) ==
  \E n \in 1..Len(t), d \in 0..1, f \in 0..2 :
    /\ n + d + f = Len(t)
    /\ \A i \in 1..n : IsDigit(t[i]) \/ t[i] = ","
    /\ d = 1 => t[n + 1] = "."
    /\ \A i \in (n + d + 1)..Len(t) : IsDigit(t[i])

CurrencySigns == {"$", Pound, Euro}

\* ([\$\£\€]?[\d,]+\.?\d{0,2}) over a whole token
IsCurrencyAmount(t) ==
  IsPlainAmount(IF At(t, 1) \in CurrencySigns THEN Tail(t) ELSE t)

\* (NZ\$|[\$])?([\d,]+\.?\d{0,2}) over a whole token: the number after the prefix
NZAmountPart(t) ==
  IF Slice(t, 1, 3) = <<"N", "Z", "$">> THEN Slice(t, 4, Len(t))
  ELSE IF At(t, 1) = "$" THEN Tail(t) ELSE t

\* ^(\d{2})\s*\.\s*(\d{2})\s*\.\s*(\d{2})
AmexDate(s) ==
  LET p1 == 3 + WsRun(s, 3)
      p2 == p1 + 1 + WsRun(s, p1 + 1)
      p3 == p2 + 2 + WsRun(s, p2 + 2)
      p4 == p3 + 1 + WsRun(s, p3 + 1)
  IN IF /\ IsDigit(At(s, 1)) /\ IsDigit(At(s, 2)) /\ At(s, p1) = "."
        /\ IsDigit(At(s, p2)) /\ IsDigit(At(s, p2 + 1)) /\ At(s, p3) = "."
        /\ IsDigit(At(s, p4)) /\ IsDigit(At(s, p4 + 1))
     THEN [ok |-> TRUE, day |-> Slice(s, 1, 2), month |-> Slice(s, p2, p2 + 1),
           year |-> Slice(s, p4, p4 + 1), next |-> p4 + 2]
     ELSE NoMatch

\* ^(\d{1,2})[\/\-](\d{1,2})[\/\-](\d{4}) with the separators of the set seps
SlashDate(s, seps, yearLen) ==
  LET n1 == DigitRun(s, 1)
      p2 == n1 + 2
      n2 == DigitRun(s, p2)
      p3 == p2 + n2 + 1
      n3 == DigitRun(s, p3)
  IN IF /\ n1 \in 1..2 /\ At(s, n1 + 1) \in seps
        /\ n2 \in 1..2 /\ At(s, p2 + n2) \in seps
        /\ n3 >= yearLen
     THEN [ok |-> TRUE, day |-> Slice(s, 1, n1), month |-> Slice(s, p2, p2 + n2 - 1),
           year |-> Slice(s, p3, p3 + yearLen - 1), next |-> p3 + yearLen]
     ELSE NoMatch

\* ^(\d{1,2})\s+([A-Za-z]{3})\s+(\d{4})
MonthNameDate(s) ==
  LET n1 == DigitRun(s, 1)
      w1 == WsRun(s, n1 + 1)
      p2 == n1 + 1 + w1
      w2 == WsRun(s, p2 + 3)
      p3 == p2 + 3 + w2
  IN IF /\ n1 \in 1..2 /\ w1 >= 1
        /\ IsLetter(At(s, p2)) /\ IsLetter(At(s, p2 + 1)) /\ IsLetter(At(s, p2 + 2))
        /\ w2 >= 1 /\ DigitRun(s, p3) >= 4
     THEN [ok |-> TRUE, day |-> Slice(s, 1, n1), month |-> Slice(s, p2, p2 + 2),
           year |-> Slice(s, p3, p3 + 3), next |-> p3 + 4]
     ELSE NoMatch

\* ^(\d{4})-(\d{1,2})-(\d{1,2})
IsoDate(s) ==
  LET n2 == DigitRun(s, 6)
      p3 == 6 + n2 + 1
      n3 == DigitRun(s, p3)
      dl == Min(n3, 2)
  IN IF /\ DigitRun(s, 1) = 4 /\ At(s, 5) = "-"
        /\ n2 \in 1..2 /\ At(s, 6 + n2) = "-"
        /\ n3 >= 1
     THEN [ok |-> TRUE, year |-> Slice(s, 1, 4), month |-> Slice(s, 6, 6 + n2 - 1),
           day |-> Slice(s, p3, p3 + dl - 1), next |-> p3 + dl]
     ELSE NoMatch

(***************************************************************************)
(* Merchant classifier (src/src/utils/classification.ts)                   *)
(***************************************************************************)
CATEGORY_RULES == <<
  [category |-> <<"T", "r", "a", "n", "s", "p", "o", "r", "t">>,
   subcategory |-> <<"P", "u", "b", "l", "i", "c", " ", "T", "r", "a", "n", "s", "p", "o", "r", "t">>,
   keywords |-> <<
      <<"p", "u", "b", "l", "i", "c", " ", "t", "r", "a", "n", "s", "p", "o", "r", "t">>,
      <<"a", "t", " ", "h", "o", "p">>,
      <<"a", "t", "h", "o", "p">>,
      <<"b", "u", "s", " ">>,
      <<"t", "r", "a", "i", "n">>,
      <<"f", "e", "r", "r", "y">> >>],
  [category |-> <<"T", "r", "a", "n", "s", "p", "o", "r", "t">>,
   subcategory |-> <<"R", "i", "d", "e", "s", "h", "a", "r", "e">>,
   keywords |-> <<
      <<"u", "b", "e", "r">>,
      <<"o", "l", "a">>,
      <<"d", "i", "d", "i">>,
      <<"l", "y", "f", "t">> >>],
  [category |-> <<"T", "r", "a", "n", "s", "p", "o", "r", "t">>,
   subcategory |-> <<"M", "i", "c", "r", "o", "m", "o", "b", "i", "l", "i", "t", "y">>,
   keywords |-> <<
      <<"l", "i", "m", "e">>,
      <<"b", "e", "a", "m">>,
      <<"n", "e", "u", "r", "o", "n">> >>],
  [category |-> <<"C", "a", "r">>,
   subcategory |-> <<"F", "u", "e", "l", " ", "&", " ", "C", "h", "a", "r", "g", "i", "n", "g">>,
   keywords |-> <<
      <<"p", "e", "t", "r", "o", "l">>,
      <<"g", "a", "s", "o", "l", "i", "n", "e">>,
      <<"g", "a", "s", " ", "s", "t", "a", "t", "i", "o", "n">>,
      <<"b", "p">>,
      <<"z", " ", "e", "n", "e", "r", "g", "y">>,
      <<"c", "a", "l", "t", "e", "x">>,
      <<"m", "o", "b", "i", "l">>,
      <<"g", "u", "l", "l">>,
      <<"f", "u", "e", "l", " ">> >>],
  [category |-> <<"C", "a", "r">>,
   subcategory |-> <<"S", "e", "r", "v", "i", "c", "e", "s", " ", "&", " ", "M", "a", "i", "n", "t", "e", "n", "a", "n", "c", "e">>,
   keywords |-> <<
      <<"a", "a", " ", "b", "a", "t", "t", "e", "r", "y">>,
      <<"a", "a", " ", "s", "e", "r", "v", "i", "c", "e">>,
      <<"a", "a", " ", "c", "e", "n", "t", "r", "e">>,
      <<"a", "a", " ", "s", "m", "a", "r", "t", "f", "u", "e", "l">>,
      <<"a", "a", " ", "r", "o", "a", "d", "s", "i", "d", "e">>,
      <<"a", "a", " ", "n", "z">>,
      <<"a", "a", " ", "m", "o", "u", "n", "t", " ", "w", "e", "l", "l", "i", "n", "g", "t", "o", "n">> >>],
  [category |-> <<"G", "r", "o", "c", "e", "r", "i", "e", "s">>,
   subcategory |-> <<"S", "u", "p", "e", "r", "m", "a", "r", "k", "e", "t", "s">>,
   keywords |-> <<
      <<"w", "o", "o", "l", "w", "o", "r", "t", "h", "s">>,
      <<"p", "a", "k", " ", "n", " ", "s", "a", "v", "e">>,
      <<"p", "a", "k", "s", "a", "v", "e">>,
      <<"n", "e", "w", " ", "w", "o", "r", "l", "d">>,
      <<"c", "o", "u", "n", "t", "d", "o", "w", "n">>,
      <<"f", "a", "r", "r", "o">>,
      <<"s", "u", "p", "e", "r", "m", "a", "r", "k", "e", "t">> >>],
  [category |-> <<"G", "r", "o", "c", "e", "r", "i", "e", "s">>,
   subcategory |-> <<"A", "l", "c", "o", "h", "o", "l", " ", "&", " ", "B", "e", "v", "e", "r", "a", "g", "e">>,
   keywords |-> <<
      <<"l", "i", "q", "u", "o", "r", "l", "a", "n", "d">>,
      <<"s", "u", "p", "e", "r", " ", "l", "i", "q", "u", "o", "r">>,
      <<"l", "i", "q", "u", "o", "r", " ">>,
      <<"b", "o", "t", "t", "l", "e", " ", "o">>,
      <<"b", "i", "r", "k", "e", "n", "h", "e", "a", "d", " ", "l", "i", "q", "u", "o", "r">> >>],
  [category |-> <<"G", "r", "o", "c", "e", "r", "i", "e", "s">>,
   subcategory |-> <<"S", "p", "e", "c", "i", "a", "l", "t", "y", " ", "F", "o", "o", "d">>,
   keywords |-> <<
      <<"b", "u", "t", "c", "h", "e", "r">>,
      <<"b", "a", "k", "e", "r", "y">>,
      <<"d", "e", "l", "i">>,
      <<"o", "r", "g", "a", "n", "i", "c", "s">>,
      <<"w", "h", "o", "l", "e", "f", "o", "o", "d", "s">>,
      <<"p", "a", "c", "h", "a", "m", "a", "m", "a", " ", "l", "a", "t", "i", "n", "o", " ", "s", "t", "o", "r", "e">>,
      <<"d", "a", "i", "s", "o", " ", "j", "a", "p", "a", "n">>,
      <<"3", " ", "j", "a", "p", "a", "n">> >>],
  [category |-> <<"D", "i", "n", "i", "n", "g">>,
   subcategory |-> <<"C", "a", "f", "e", "s">>,
   keywords |-> <<
      <<"c", "o", "f", "f", "e", "e">>,
      <<"c", "a", "f", "e">>,
      <<"e", "s", "p", "r", "e", "s", "s", "o">>,
      <<"s", "t", "a", "r", "b", "u", "c", "k", "s">> >>],
  [category |-> <<"D", "i", "n", "i", "n", "g">>,
   subcategory |-> <<"F", "a", "s", "t", " ", "F", "o", "o", "d">>,
   keywords |-> <<
      <<"m", "c", "d", "o", "n", "a", "l", "d">>,
      <<"k", "f", "c">>,
      <<"b", "u", "r", "g", "e", "r", " ", "k", "i", "n", "g">>,
      <<"s", "u", "b", "w", "a", "y">>,
      <<"d", "o", "m", "i", "n", "o">>,
      <<"p", "i", "z", "z", "a", " ", "h", "u", "t">>,
      <<"h", "u", "n", "g", "r", "y", " ", "j", "a", "c", "k", "s">> >>],
  [category |-> <<"D", "i", "n", "i", "n", "g">>,
   subcategory |-> <<"D", "i", "n", "i", "n", "g", " ", "O", "u", "t">>,
   keywords |-> <<
      <<"r", "e", "s", "t", "a", "u", "r", "a", "n", "t">>,
      <<"b", "i", "s", "t", "r", "o">>,
      <<"d", "i", "n", "i", "n", "g">>,
      <<"c", "u", "i", "s", "i", "n", "e">>,
      <<"g", "r", "i", "l", "l">>,
      <<"i", "z", "a", "k", "a", "y", "a">>,
      <<"e", "a", "t", "e", "r", "y">>,
      <<"f", "a", "t", " ", "b", "a", "d", "g", "e", "r", "s", " ", "p", "i", "z", "z", "a">>,
      <<"p", "i", "z", "z", "a", " ", "b", "a", "r">> >>],
  [category |-> <<"E", "n", "t", "e", "r", "t", "a", "i", "n", "m", "e", "n", "t">>,
   subcategory |-> <<"S", "t", "r", "e", "a", "m", "i", "n", "g">>,
   keywords |-> <<
      <<"n", "e", "t", "f", "l", "i", "x">>,
      <<"s", "p", "o", "t", "i", "f", "y">>,
      <<"d", "i", "s", "n", "e", "y">>,
      <<"a", "p", "p", "l", "e", " ", "m", "u", "s", "i", "c">>,
      <<"y", "o", "u", "t", "u", "b", "e">>,
      <<"p", "a", "r", "a", "m", "o", "u", "n", "t">>,
      <<"h", "b", "o">>,
      <<"a", "m", "a", "z", "o", "n", " ", "p", "r", "i", "m", "e">> >>],
  [category |-> <<"E", "n", "t", "e", "r", "t", "a", "i", "n", "m", "e", "n", "t">>,
   subcategory |-> <<"G", "a", "m", "i", "n", "g">>,
   keywords |-> <<
      <<"p", "l", "a", "y", "s", "t", "a", "t", "i", "o", "n">>,
      <<"s", "t", "e", "a", "m">>,
      <<"n", "i", "n", "t", "e", "n", "d", "o">>,
      <<"x", "b", "o", "x">>,
      <<"g", "a", "m", "e", " ", "p", "a", "s", "s">>,
      <<"g", "a", "m", "i", "n", "g">> >>],
  [category |-> <<"E", "n", "t", "e", "r", "t", "a", "i", "n", "m", "e", "n", "t">>,
   subcategory |-> <<"M", "o", "v", "i", "e", "s", " ", "&", " ", "E", "v", "e", "n", "t", "s">>,
   keywords |-> <<
      <<"e", "v", "e", "n", "t", " ", "c", "i", "n", "e", "m", "a">>,
      <<"c", "i", "n", "e", "m", "a", "s">>,
      <<"m", "o", "v", "i", "e", "s">>,
      <<"t", "h", "e", "a", "t", "r", "e">> >>],
  [category |-> <<"S", "u", "b", "s", "c", "r", "i", "p", "t", "i", "o", "n", "s", " ", "&", " ", "S", "e", "r", "v", "i", "c", "e", "s">>,
   subcategory |-> <<"S", "o", "f", "t", "w", "a", "r", "e", " ", "&", " ", "C", "l", "o", "u", "d">>,
   keywords |-> <<
      <<"o", "p", "e", "n", "a", "i">>,
      <<"c", "l", "a", "u", "d", "e">>,
      <<"c", "u", "r", "s", "o", "r">>,
      <<"e", "x", "p", "r", "e", "s", "s", "v", "p", "n">>,
      <<"c", "l", "o", "u", "d", "f", "l", "a", "r", "e">>,
      <<"a", "p", "p", "l", "e", ".", "c", "o", "m">>,
      <<"a", "p", "p", "l", "e", "c", "o", "m">>,
      <<"i", "c", "l", "o", "u", "d">>,
      <<"i", "t", "u", "n", "e", "s">>,
      <<"m", "i", "c", "r", "o", "s", "o", "f", "t">>,
      <<"g", "o", "o", "g", "l", "e">>,
      <<"a", "d", "o", "b", "e">>,
      <<"g", "i", "t", "h", "u", "b">> >>],
  [category |-> <<"S", "u", "b", "s", "c", "r", "i", "p", "t", "i", "o", "n", "s", " ", "&", " ", "S", "e", "r", "v", "i", "c", "e", "s">>,
   subcategory |-> <<"M", "o", "b", "i", "l", "e", " ", "P", "h", "o", "n", "e">>,
   keywords |-> <<
      <<"s", "k", "i", "n", "n", "y", " ", "m", "o", "b", "i", "l", "e">>,
      <<"v", "o", "d", "a", "f", "o", "n", "e">>,
      <<"s", "p", "a", "r", "k", " ", "m", "o", "b", "i", "l", "e">> >>],
  [category |-> <<"S", "u", "b", "s", "c", "r", "i", "p", "t", "i", "o", "n", "s", " ", "&", " ", "S", "e", "r", "v", "i", "c", "e", "s">>,
   subcategory |-> <<"M", "e", "m", "b", "e", "r", "s", "h", "i", "p", "s">>,
   keywords |-> <<
      <<"u", "b", "e", "r", " ", "o", "n", "e", " ", "m", "e", "m", "b", "e", "r", "s", "h", "i", "p">>,
      <<"u", "b", "e", "r", " ", "o", "n", "e">> >>],
  [category |-> <<"S", "h", "o", "p", "p", "i", "n", "g">>,
   subcategory |-> <<"R", "e", "t", "a", "i", "l", " ", "&", " ", "H", "o", "m", "e">>,
   keywords |-> <<
      <<"k", "m", "a", "r", "t">>,
      <<"w", "a", "r", "e", "h", "o", "u", "s", "e">>,
      <<"b", "r", "i", "s", "c", "o", "e", "s">>,
      <<"b", "u", "n", "n", "i", "n", "g", "s">>,
      <<"m", "i", "t", "r", "e", " ", "1", "0">>,
      <<"i", "k", "e", "a">>,
      <<"n", "o", "e", "l", " ", "l", "e", "e", "m", "i", "n", "g">>,
      <<"h", "a", "r", "v", "e", "y", " ", "n", "o", "r", "m", "a", "n">>,
      <<"j", "b", " ", "h", "i", " ", "f", "i">>,
      <<"m", "i", "g", "h", "t", "y", " ", "a", "p", "e">> >>],
  [category |-> <<"S", "h", "o", "p", "p", "i", "n", "g">>,
   subcategory |-> <<"A", "p", "p", "a", "r", "e", "l">>,
   keywords |-> <<
      <<"f", "a", "r", "m", "e", "r">>,
      <<"f", "a", "s", "h", "i", "o", "n">>,
      <<"a", "d", "i", "d", "a", "s">>,
      <<"p", "u", "m", "a">>,
      <<"n", "i", "k", "e">>,
      <<"s", "e", "e", "d", " ", "h", "e", "r", "i", "t", "a", "g", "e">>,
      <<"h", "a", "l", "l", "e", "n", "s", "t", "e", "i", "n">>,
      <<"g", "l", "a", "s", "s", "o", "n", "s">> >>],
  [category |-> <<"H", "e", "a", "l", "t", "h">>,
   subcategory |-> <<"P", "h", "a", "r", "m", "a", "c", "y", " ", "&", " ", "H", "e", "a", "l", "t", "h">>,
   keywords |-> <<
      <<"c", "h", "e", "m", "i", "s", "t">>,
      <<"p", "h", "a", "r", "m", "a", "c", "y">>,
      <<"u", "n", "i", "m", "e", "d", "s">>,
      <<"m", "e", "d", "i", "c", "a", "l">>,
      <<"c", "l", "i", "n", "i", "c">> >>],
  [category |-> <<"T", "r", "a", "v", "e", "l">>,
   subcategory |-> <<"A", "c", "c", "o", "m", "m", "o", "d", "a", "t", "i", "o", "n">>,
   keywords |-> <<
      <<"h", "o", "t", "e", "l">>,
      <<"a", "i", "r", "b", "n", "b">>,
      <<"a", "c", "c", "o", "r">>,
      <<"h", "i", "l", "t", "o", "n">>,
      <<"m", "a", "r", "r", "i", "o", "t", "t">>,
      <<"m", "o", "t", "e", "l">>,
      <<"r", "e", "s", "o", "r", "t">>,
      <<"b", "o", "o", "k", "i", "n", "g", ".", "c", "o", "m">>,
      <<"b", "o", "o", "k", "i", "n", "g">> >>],
  [category |-> <<"T", "r", "a", "v", "e", "l">>,
   subcategory |-> <<"F", "l", "i", "g", "h", "t", "s">>,
   keywords |-> <<
      <<"a", "i", "r", " ", "n", "e", "w", " ", "z", "e", "a", "l", "a", "n", "d">>,
      <<"j", "e", "t", "s", "t", "a", "r">>,
      <<"q", "a", "n", "t", "a", "s">>,
      <<"a", "i", "r", "l", "i", "n", "e">>,
      <<"f", "l", "i", "g", "h", "t">> >>],
  [category |-> <<"H", "o", "b", "b", "i", "e", "s">>,
   subcategory |-> <<"L", "e", "a", "r", "n", "i", "n", "g", " ", "&", " ", "C", "l", "a", "s", "s", "e", "s">>,
   keywords |-> <<
      <<"l", "a", "n", "g", "u", "a", "g", "e", " ", "l", "e", "s", "s", "o", "n">>,
      <<"m", "u", "s", "i", "c", " ", "l", "e", "s", "s", "o", "n">>,
      <<"a", "r", "t", " ", "c", "l", "a", "s", "s">> >>]
>>

PAYPAL_OVERRIDES == <<
  [match |-> <<"l", "a", "u", "c", "o", "l", "l", "a">>, category |-> <<"O", "t", "h", "e", "r">>,
   subcategory |-> <<"C", "o", "u", "n", "s", "e", "l", "l", "i", "n", "g">>],
  [match |-> <<"m", "a", "r", "i", "a", "n", "o">>, category |-> <<"H", "o", "b", "b", "i", "e", "s">>,
   subcategory |-> <<"L", "e", "a", "r", "n", "i", "n", "g", " ", "&", " ", "C", "l", "a", "s", "s", "e", "s">>],
  [match |-> <<"m", "i", "g", "h", "t", "y", " ", "a", "p", "e">>, category |-> <<"S", "h", "o", "p", "p", "i", "n", "g">>,
   subcategory |-> <<"R", "e", "t", "a", "i", "l", " ", "&", " ", "H", "o", "m", "e">>],
  [match |-> <<"b", "o", "o", "k", "i", "n", "g">>, category |-> <<"T", "r", "a", "v", "e", "l">>,
   subcategory |-> <<"A", "c", "c", "o", "m", "m", "o", "d", "a", "t", "i", "o", "n">>],
  [match |-> <<"c", "l", "o", "u", "d", "f", "l", "a", "r", "e">>, category |-> <<"S", "u", "b", "s", "c", "r", "i", "p", "t", "i", "o", "n", "s", " ", "&", " ", "S", "e", "r", "v", "i", "c", "e", "s">>,
   subcategory |-> <<"S", "o", "f", "t", "w", "a", "r", "e", " ", "&", " ", "C", "l", "o", "u", "d">>]
>>

\* replace(/\s+/g, ' '): every run of whitespace becomes one space
RECURSIVE CollapseWs(_)
CollapseWs(s) ==
  IF s = << >> THEN << >>
  ELSE IF IsWs(Head(s))
       THEN <<" ">> \o CollapseWs(Slice(s, 1 + WsRun(s, 1), Len(s)))
       ELSE << Head(s) >> \o CollapseWs(Tail(s))

\* value.toLowerCase().replace(/\s+/g, ' ').trim()
normalize(value) == Trim(CollapseWs(ToLower(value)))

\* value.replace(/[^a-z0-9]/g, '')
RECURSIVE collapse(_)
collapse(value) ==
  IF value = << >> THEN << >>
  ELSE (IF IsLower(Head(value)) \/ IsDigit(Head(value)) THEN << Head(value) >> ELSE << >>)
         \o collapse(Tail(value))

\* one entry of PROCESSED_RULES: the rule with its keywords normalized and
\* collapsed
ProcessRule(rule) ==
  [category |-> rule.category,
   subcategory |-> rule.subcategory,
   normalizedKeywords |->
     [k \in 1..Len(rule.keywords) |-> normalize(rule.keywords[k])],
   collapsedKeywords |->
     [k \in 1..Len(rule.keywords) |-> collapse(normalize(rule.keywords[k]))]]

ProcessRules(rules) == [r \in 1..Len(rules) |-> ProcessRule(rules[r])]

PROCESSED_RULES == ProcessRules(CATEGORY_RULES)

NoClassification == [category |-> <<"null">>, subcategory |-> <<"null">>]

\* some keyword of the list is non-empty and contained in the text
AnyKeywordIn(keywords, value) ==
  \E k \in 1..Len(keywords) : keywords[k] # << >> /\ Includes(value, keywords[k])

\* whether a rule matches: a keyword in the normalized text or, failing that,
\* a collapsed keyword in the collapsed text
RuleMatches(rule, normalizedValue, collapsedValue) ==
  \/ AnyKeywordIn(rule.normalizedKeywords, normalizedValue)
  \/ AnyKeywordIn(rule.collapsedKeywords, collapsedValue)

\* the last rule of the list that matches
LastRule(rules, normalizedValue, collapsedValue) ==
  LET ClassOf(hits) ==
        IF hits = {} THEN NoClassification
        ELSE LET Last(r) == [category |-> rules[r].category,
                             subcategory |-> rules[r].subcategory]
             IN Last(CHOOSE r \in hits : \A q \in hits : q <= r)
  IN ClassOf({r \in 1..Len(rules) : RuleMatches(rules[r], normalizedValue, collapsedValue)})

\* the first rule of the list, in order, that matches
FirstRule(rules, normalizedValue, collapsedValue) ==
  LET ClassOf(hits) ==
        IF hits = {} THEN NoClassification
        ELSE LET First(r) == [category |-> rules[r].category,
                              subcategory |-> rules[r].subcategory]
             IN First(CHOOSE r \in hits : \A q \in hits : r <= q)
  IN ClassOf({r \in 1..Len(rules) : RuleMatches(rules[r], normalizedValue, collapsedValue)})

matchRules(normalizedValue, collapsedValue) ==
  FirstRule(PROCESSED_RULES, normalizedValue, collapsedValue)

\* place.replace(/^paypal\s*\*/, ''): the pattern is matched against the raw
\* text, without the i flag
StripPaypalPrefix(place) ==
  LET Rest(w) ==
        IF Slice(place, 1, 6) = <<"p", "a", "y", "p", "a", "l">> /\ At(place, 7 + w) = "*"
        THEN Slice(place, 8 + w, Len(place))
        ELSE place
  IN Rest(WsRun(place, 7))

OtherGeneral == [category |-> <<"O", "t", "h", "e", "r">>, subcategory |-> <<"G", "e", "n", "e", "r", "a", "l">>]

\* found ?? fallback, for a classification
OrElse(found, fallback) == IF found # NoClassification THEN found ELSE fallback

\* the first override, in order, whose collapsed match text is contained in the
\* collapsed PayPal merchant name
FirstOverride(overrides, collapsedPaypalName) ==
  LET ClassOf(hits) ==
        IF hits = {} THEN NoClassification
        ELSE LET First(o) == [category |-> overrides[o].category,
                              subcategory |-> overrides[o].subcategory]
             IN First(CHOOSE o \in hits : \A q \in hits : o <= q)
  IN ClassOf({i \in 1..Len(overrides) :
                Includes(collapsedPaypalName, collapse(overrides[i].match))})

\* the PayPal branch: an override, else the rules on the merchant name, else
\* Other / General
PaypalClassification(paypalName) ==
  OrElse(FirstOverride(PAYPAL_OVERRIDES, collapse(paypalName)),
         OrElse(matchRules(paypalName, collapse(paypalName)), OtherGeneral))

categorizeMerchant(place) ==
  LET Classify(normalizedPlace) ==
        OrElse(matchRules(normalizedPlace, collapse(normalizedPlace)),
               IF Slice(normalizedPlace, 1, 6) = <<"p", "a", "y", "p", "a", "l">>
               THEN PaypalClassification(normalize(StripPaypalPrefix(place)))
               ELSE OtherGeneral)
  IN Classify(normalize(place))

(***************************************************************************)
(* Statement period (computeStatementMetadata)                             *)
(***************************************************************************)
\* null: distinct from every string (no character is "null")
Null == <<"null">>

IsLeap(y) == (y % 4 = 0 /\ y % 100 # 0) \/ y % 400 = 0

DaysInMonth(y, m) ==
  IF m = 2 THEN (IF IsLeap(y) THEN 29 ELSE 28)
  ELSE IF m \in {4, 6, 9, 11} THEN 30 ELSE 31

Pad2(n) == IF n < 10 THEN <<"0">> \o NatToDigits(n) ELSE NatToDigits(n)
Pad4(n) ==
  IF n < 10 THEN <<"0", "0", "0">> \o NatToDigits(n)
  ELSE IF n < 100 THEN <<"0", "0">> \o NatToDigits(n)
  ELSE IF n < 1000 THEN <<"0">> \o NatToDigits(n)
  ELSE NatToDigits(n)

\* value.toISOString().split('T')[0]; month is 0-based as in Date
toIso(y, month0, d) == Pad4(y) \o <<"-">> \o Pad2(month0 + 1) \o <<"-">> \o Pad2(d)

\* new Date(`${dateIso}T00:00:00Z`) as Node parses it: YYYY-MM-DD with month
\* 01..12 and day 01..31; a day past the end of the month rolls into the next
\* month; anything else is an Invalid Date (ok = FALSE).  month is 0-based.
ParseIsoDate(dateIso) ==
  IF /\ Len(dateIso) = 10
     /\ \A i \in {1, 2, 3, 4, 6, 7, 9, 10} : IsDigit(dateIso[i])
     /\ dateIso[5] = "-" /\ dateIso[8] = "-"
  THEN LET y == DigitsToNat(SubSeq(dateIso, 1, 4))
           m == DigitsToNat(SubSeq(dateIso, 6, 7))
           d == DigitsToNat(SubSeq(dateIso, 9, 10))
       IN IF m \in 1..12 /\ d \in 1..31
          THEN IF d <= DaysInMonth(y, m)
               THEN [ok |-> TRUE, year |-> y, month |-> m - 1, date |-> d]
               ELSE IF m = 12
                    THEN [ok |-> TRUE, year |-> y + 1, month |-> 0, date |-> d - DaysInMonth(y, m)]
                    ELSE [ok |-> TRUE, year |-> y, month |-> m, date |-> d - DaysInMonth(y, m)]
          ELSE NoMatch
  ELSE NoMatch

\* Date.UTC(year, ...): a year 0..99 means 1900 + year
UTCYear(y) == IF y \in 0..99 THEN 1900 + y ELSE y

NullMetadata == [statement_id |-> Null, statement_start |-> Null, statement_end |-> Null]

\* the statement with the cycle boundary a day late: the 27th still closes
\* in its own month
StatementOfLateBoundary(date) ==
  LET Period(closingYear, closingMonth) ==
        [statement_id |-> toIso(UTCYear(closingYear), closingMonth, 26),
         statement_start |-> IF closingMonth - 1 < 0
                             THEN toIso(UTCYear(closingYear - 1), 11, 27)
                             ELSE toIso(UTCYear(closingYear), closingMonth - 1, 27),
         statement_end |-> toIso(UTCYear(closingYear), closingMonth, 26)]
  IN IF date.date > 27
     THEN (IF date.month + 1 > 11
           THEN Period(date.year + 1, 0)
           ELSE Period(date.year, date.month + 1))
     ELSE Period(date.year, date.month)

\* the statement taken to close in the month of the date whatever the day
StatementOfOwnMonth(date) ==
  [statement_id |-> toIso(UTCYear(date.year), date.month, 26),
   statement_start |-> IF date.month = 0 THEN toIso(UTCYear(date.year - 1), 11, 27)
                       ELSE toIso(UTCYear(date.year), date.month - 1, 27),
   statement_end |-> toIso(UTCYear(date.year), date.month, 26)]

\* the statement that closes on the 26th on or after the date; closingMonth and
\* openingMonth are 0-based
StatementOf(date) ==
  LET Period(closingYear, closingMonth) ==
        LET Bounds(statementEnd, statementStart) ==
              [statement_id |-> statementEnd,
               statement_start |-> statementStart,
               statement_end |-> statementEnd]
        IN Bounds(toIso(UTCYear(closingYear), closingMonth, 26),
                  IF closingMonth - 1 < 0
                  THEN toIso(UTCYear(closingYear - 1), 11, 27)
                  ELSE toIso(UTCYear(closingYear), closingMonth - 1, 27))
  IN IF date.date > 26
     THEN (IF date.month + 1 > 11
           THEN Period(date.year + 1, 0)
           ELSE Period(date.year, date.month + 1))
     ELSE Period(date.year, date.month)

computeStatementMetadata(dateIso) ==
  LET Metadata(date) == IF ~date.ok THEN NullMetadata ELSE StatementOf(date)
  IN IF dateIso = << >> THEN NullMetadata ELSE Metadata(ParseIsoDate(dateIso))

\* parseDate: DD.MM.YY -> YYYY-MM-DD, the year taken to be 20YY
parseDate(dateStr) ==
  LET parts == Split(dateStr, {"."})
      day == parts[1]
      month == parts[2]
      year == parts[3]
  IN <<"2", "0">> \o year \o <<"-">> \o PadStart2(month) \o <<"-">> \o PadStart2(day)

\* id: undefined; the store assigns positive ids
NoId == -1

\* the transaction built with the whitespace runs of the description
\* collapsed to one space
createTransactionCollapsing(dateStr, description, value, date_iso) ==
  LET Transaction(place, classification, statementMetadata) ==
        [place |-> place,
         amount |-> <<"$">> \o ToFixed2(value),
         date |-> date_iso,
         currency |-> <<"N", "Z", "D">>,
         value |-> value,
         date_iso |-> date_iso,
         category |-> classification.category,
         subcategory |-> classification.subcategory,
         statement_id |-> statementMetadata.statement_id,
         statement_start |-> statementMetadata.statement_start,
         statement_end |-> statementMetadata.statement_end]
  IN Transaction(CollapseWs(description), categorizeMerchant(description),
                 computeStatementMetadata(date_iso))

createTransaction(dateStr, description, value, date_iso) ==
  LET Transaction(place, classification, statementMetadata) ==
        [place |-> place,
         amount |-> <<"$">> \o ToFixed2(value),
         date |-> date_iso,
         currency |-> <<"N", "Z", "D">>,
         value |-> value,
         date_iso |-> date_iso,
         category |-> classification.category,
         subcategory |-> classification.subcategory,
         statement_id |-> statementMetadata.statement_id,
         statement_start |-> statementMetadata.statement_start,
         statement_end |-> statementMetadata.statement_end]
  IN Transaction(description, categorizeMerchant(description),
                 computeStatementMetadata(date_iso))

(***************************************************************************)
(* Format parsers (src/src/app/api/upload-pdf/route.ts).  lines is the     *)
(* array of trimmed non-empty lines; the code's 0-based index i is the     *)
(* element lines[i + 1].                                                   *)
(***************************************************************************)
PaymentThankYou == <<"P", "A", "Y", "M", "E", "N", "T", " ", "-", " ", "T", "H", "A", "N", "K", " ", "Y", "O", "U">>
TotalOfNew == <<"T", "o", "t", "a", "l", " ", "o", "f", " ", "N", "e", "w", " ", "T", "r", "a", "n", "s", "a", "c", "t", "i", "o", "n", "s">>
MinimumPaymentText == <<"M", "i", "n", "i", "m", "u", "m", " ", "P", "a", "y", "m", "e", "n", "t">>
CreditLimitText == <<"C", "r", "e", "d", "i", "t", " ", "L", "i", "m", "i", "t">>
DueByText == <<"D", "u", "e", " ", "b", "y">>

\* the lines below this index are the summary section
SummaryLines == 50
\* proximity windows of findClosestAmount and of the sequential start offset
AfterWindow == 5
BeforeWindow == 30
\* largest count difference that still allows sequential matching
MaxCountDiff == 2

\* run of [\d,] characters from p on
DigitCommaRun(s, p) ==
  CHOOSE n \in 0..Len(s) :
    /\ \A i \in p..(p + n - 1) : IsDigit(At(s, i)) \/ At(s, i) = ","
    /\ ~(IsDigit(At(s, p + n)) \/ At(s, p + n) = ",")

\* /Minimum\s+Payment\s+\$?\s*([\d,]+\.?\d{0,2})/i tried at position i
MinPaymentAt(s, i) ==
  LET Amount(p5) ==
        LET Capture(n) ==
              LET Fraction(d) ==
                    [ok |-> TRUE,
                     amount |-> Slice(s, p5, p5 + n + d + Min(DigitRun(s, p5 + n + d), 2) - 1)]
              IN IF n >= 1 THEN Fraction(IF At(s, p5 + n) = "." THEN 1 ELSE 0) ELSE NoMatch
        IN Capture(DigitCommaRun(s, p5))
      Sign(p3) ==
        LET Skip(p4) == Amount(p4 + WsRun(s, p4))
        IN Skip(IF At(s, p3) = "$" THEN p3 + 1 ELSE p3)
      Payment(p2) ==
        LET Gap(w2) ==
              IF ToLower(Slice(s, p2, p2 + 6)) = <<"p", "a", "y", "m", "e", "n", "t">> /\ w2 >= 1
              THEN Sign(p2 + 7 + w2)
              ELSE NoMatch
        IN Gap(WsRun(s, p2 + 7))
      Minimum(w1) ==
        IF ToLower(Slice(s, i, i + 6)) = <<"m", "i", "n", "i", "m", "u", "m">> /\ w1 >= 1
        THEN Payment(i + 7 + w1)
        ELSE NoMatch
  IN Minimum(WsRun(s, i + 7))

\* the leftmost match of the pattern in s
minPaymentMatch(s) ==
  LET First(hits) ==
        IF hits = {} THEN NoMatch
        ELSE MinPaymentAt(s, CHOOSE i \in hits : \A j \in hits : i <= j)
  IN First({i \in 1..Len(s) : s[i] \in {"M", "m"} /\ MinPaymentAt(s, i).ok})

NoMinimumPayment == NaN

\* the minimum payment of the header: the first match in lines 0..49
minimumPaymentAmount(lines) ==
  LET First(matches) ==
        LET Pick(hits) ==
              IF hits = {} THEN NoMinimumPayment
              ELSE ParseFloat(Strip(matches[CHOOSE j \in hits : \A k \in hits : j <= k].amount,
                                    {","}))
        IN Pick({j \in DOMAIN matches : matches[j].ok})
  IN First([j \in 1..Min(SummaryLines, Len(lines)) |-> minPaymentMatch(lines[j])])

transactionWithAmountPattern(line) ==
  LET Match(date) ==
        LET Captures(tail) ==
              IF tail.ok /\ IsAmexAmount(tail.token)
              THEN [ok |-> TRUE, day |-> date.day, month |-> date.month, year |-> date.year,
                    description |-> tail.description, amount |-> tail.token]
              ELSE NoMatch
        IN IF date.ok THEN Captures(LazyTail(line, date.next, 1)) ELSE NoMatch
  IN Match(AmexDate(line))

transactionPattern(line) ==
  LET Match(date) ==
        LET Captures(tail) ==
              IF tail.ok
              THEN [ok |-> TRUE, day |-> date.day, month |-> date.month, year |-> date.year,
                    description |-> tail.description]
              ELSE NoMatch
        IN IF date.ok THEN Captures(GreedyTail(line, date.next)) ELSE NoMatch
  IN Match(AmexDate(line))

amountPattern(line) == IsAmexAmount(line)

IsPaymentOrTotal(description) ==
  Includes(description, PaymentThankYou) \/ Includes(description, TotalOfNew)

DotDate(day, month, year) == day \o <<".">> \o month \o <<".">> \o year

\* lines[i] of the 0-based array, the empty string outside it
LineAt(lines, i) == IF i >= 0 /\ i < Len(lines) THEN lines[i + 1] ELSE << >>

\* one iteration of the first pass of parseAmexFormat: what line i adds to
\* directTransactions ("direct"), transactionsRaw ("trans") or amountsRaw
\* ("amount"), or nothing ("none")
AmexLine(lines, i) ==
  LET None == [kind |-> "none"]
      Direct(directMatch) ==
        LET Valued(value) ==
              IF IsPaymentOrTotal(directMatch.description) THEN None
              ELSE IF InvalidAmount(value) THEN None
              ELSE [kind |-> "direct",
                    date |-> DotDate(directMatch.day, directMatch.month, directMatch.year),
                    description |-> Trim(directMatch.description),
                    value |-> value, index |-> i]
        IN Valued(ParseFloat(Strip(directMatch.amount, {","})))
      Trans(transMatch) ==
        IF i < SummaryLines THEN None
        ELSE IF IsPaymentOrTotal(transMatch.description) THEN None
        ELSE [kind |-> "trans",
              date |-> DotDate(transMatch.day, transMatch.month, transMatch.year),
              description |-> Trim(transMatch.description), index |-> i]
      Amount(line, value, prevLine, minPay) ==
        IF i < SummaryLines THEN None
        ELSE IF \/ Includes(line, <<"C", "R">>) \/ Includes(line, <<"%">>)
                \/ LineAt(lines, i + 1) = <<"C", "R">> THEN None
        ELSE IF \/ Includes(prevLine, MinimumPaymentText)
                \/ Includes(prevLine, CreditLimitText)
                \/ Includes(prevLine, DueByText)
                \/ Includes(line, MinimumPaymentText) THEN None
        ELSE IF \/ Includes(LineAt(lines, i - 2), MinimumPaymentText)
                \/ Includes(LineAt(lines, i - 3), MinimumPaymentText) THEN None
        ELSE IF InvalidAmount(value) THEN None
        ELSE IF minPay # NoMinimumPayment /\ CompareGapToCent(value, minPay) = "less" THEN None
        ELSE [kind |-> "amount", value |-> value, index |-> i]
      Classify(line) ==
        LET Second(transMatch) ==
              IF transMatch.ok THEN Trans(transMatch)
              ELSE IF amountPattern(line)
              THEN Amount(line, ParseFloat(Strip(line, {","})), LineAt(lines, i - 1),
                          minimumPaymentAmount(lines))
              ELSE None
            First(directMatch) ==
              IF directMatch.ok THEN Direct(directMatch)
              ELSE Second(transactionPattern(line))
        IN First(transactionWithAmountPattern(line))
  IN Classify(lines[i + 1])

\* what the first pass makes of every line, in line order
AmexFirstPass(lines) == [j \in 1..Len(lines) |-> AmexLine(lines, j - 1)]

\* the entries of one kind among the results of the first pass
OfKind(pass, kind) == SelectSeq(pass, LAMBDA r : r.kind = kind)

\* the three lists the first pass collects, in line order
AmexCollected(lines, kind) == OfKind(AmexFirstPass(lines), kind)

\* the search that looks before the transaction line first
findClosestAmountBeforeFirst(transactionIndex, amountsRaw, usedAmounts) ==
  LET Closest(S) == CHOOSE i \in S :
                      \A j \in S :
                        \/ Abs(amountsRaw[i].index - transactionIndex)
                             < Abs(amountsRaw[j].index - transactionIndex)
                        \/ /\ Abs(amountsRaw[i].index - transactionIndex)
                                = Abs(amountsRaw[j].index - transactionIndex)
                           /\ i <= j
      Search(after, before, same) ==
        IF before # {} THEN Closest(before)
        ELSE IF after # {} THEN Closest(after)
        ELSE IF same # {} THEN Closest(same)
        ELSE 0
      Among(free) ==
        Search({i \in free : amountsRaw[i].index - transactionIndex \in 1..AfterWindow},
               {i \in free : transactionIndex - amountsRaw[i].index \in 1..BeforeWindow},
               {i \in free : amountsRaw[i].index = transactionIndex})
  IN Among({i \in 1..Len(amountsRaw) : i \notin usedAmounts})

\* the search that takes the closest amount whether it is used or not
findClosestAmountReusing(transactionIndex, amountsRaw, usedAmounts) ==
  LET Closest(S) == CHOOSE i \in S :
                      \A j \in S :
                        \/ Abs(amountsRaw[i].index - transactionIndex)
                             < Abs(amountsRaw[j].index - transactionIndex)
                        \/ /\ Abs(amountsRaw[i].index - transactionIndex)
                                = Abs(amountsRaw[j].index - transactionIndex)
                           /\ i <= j
      Search(after, before, same) ==
        IF after # {} THEN Closest(after)
        ELSE IF before # {} THEN Closest(before)
        ELSE IF same # {} THEN Closest(same)
        ELSE 0
      Among(free) ==
        Search({i \in free : amountsRaw[i].index - transactionIndex \in 1..AfterWindow},
               {i \in free : transactionIndex - amountsRaw[i].index \in 1..BeforeWindow},
               {i \in free : amountsRaw[i].index = transactionIndex})
  IN Among(1..Len(amountsRaw))

\* findClosestAmount: the position in amountsRaw of the amount chosen for the
\* transaction at line transactionIndex, 0 when there is none.  usedAmounts is
\* the set of positions already taken.
findClosestAmount(transactionIndex, amountsRaw, usedAmounts) ==
  LET \* the first position with the smallest distance
      Closest(S) == CHOOSE i \in S :
                      \A j \in S :
                        \/ Abs(amountsRaw[i].index - transactionIndex)
                             < Abs(amountsRaw[j].index - transactionIndex)
                        \/ /\ Abs(amountsRaw[i].index - transactionIndex)
                                = Abs(amountsRaw[j].index - transactionIndex)
                           /\ i <= j
      Search(after, before, same) ==
        IF after # {} THEN Closest(after)
        ELSE IF before # {} THEN Closest(before)
        ELSE IF same # {} THEN Closest(same)
        ELSE 0
      Among(free) ==
        Search({i \in free : amountsRaw[i].index - transactionIndex \in 1..AfterWindow},
               {i \in free : transactionIndex - amountsRaw[i].index \in 1..BeforeWindow},
               {i \in free : amountsRaw[i].index = transactionIndex})
  IN Among({i \in 1..Len(amountsRaw) : i \notin usedAmounts})

\* the proximity loop over transactionsRaw from position t on
RECURSIVE ProximityFrom(_, _, _, _)
ProximityFrom(transactionsRaw, amountsRaw, usedAmounts, t) ==
  LET Pair(transactionLine, matched) ==
        IF matched = 0
        THEN ProximityFrom(transactionsRaw, amountsRaw, usedAmounts, t + 1)
        ELSE << createTransaction(transactionLine.date, transactionLine.description,
                                  amountsRaw[matched].value, parseDate(transactionLine.date)) >>
             \o ProximityFrom(transactionsRaw, amountsRaw, usedAmounts \cup {matched}, t + 1)
  IN IF t > Len(transactionsRaw) THEN << >>
     ELSE Pair(transactionsRaw[t],
               findClosestAmount(transactionsRaw[t].index, amountsRaw, usedAmounts))

\* the start offset of sequential matching (0-based position in amountsRaw)
startOffset(transactionsRaw, amountsRaw) ==
  LET Offset(near) ==
        IF Len(amountsRaw) > Len(transactionsRaw) /\ near # {}
        THEN (CHOOSE i \in near : \A j \in near : i <= j) - 1
        ELSE 0
  IN Offset({i \in 1..Len(amountsRaw) :
               Abs(amountsRaw[i].index - transactionsRaw[1].index) <= BeforeWindow})

\* direct mode that leaves out the direct-mode lines of the summary section
AmexMatchDirectAfterSummary(directTransactions, transactionsRaw, amountsRaw) ==
  LET Build(kept) ==
        [i \in 1..Len(kept) |->
           createTransaction(kept[i].date, kept[i].description, kept[i].value,
                             parseDate(kept[i].date))]
  IN Build(SelectSeq(directTransactions, LAMBDA r : r.index >= SummaryLines))

\* the sequential pairing taken from the wrong end of amountsRaw
AmexMatchReversed(directTransactions, transactionsRaw, amountsRaw) ==
  [i \in 1..Min(Len(transactionsRaw), Len(amountsRaw)) |->
     createTransaction(transactionsRaw[i].date, transactionsRaw[i].description,
                       amountsRaw[Len(amountsRaw) + 1 - i].value,
                       parseDate(transactionsRaw[i].date))]

\* the second phase of parseAmexFormat, on the lists the first pass collected:
\* direct mode, sequential alignment, proximity matching
AmexMatch(directTransactions, transactionsRaw, amountsRaw) ==
  LET Build(mode, offset, matchedCount) ==
        IF mode = "direct"
        THEN [i \in 1..Len(directTransactions) |->
               createTransaction(directTransactions[i].date, directTransactions[i].description,
                                 directTransactions[i].value,
                                 parseDate(directTransactions[i].date))]
        ELSE IF mode = "sequential" /\ matchedCount > 0
        THEN [i \in 1..matchedCount |->
               createTransaction(transactionsRaw[i].date, transactionsRaw[i].description,
                                 amountsRaw[offset + i].value,
                                 parseDate(transactionsRaw[i].date))]
        ELSE ProximityFrom(transactionsRaw, amountsRaw, {}, 1)
      Run(plan) == Build(plan.mode, plan.offset, plan.matchedCount)
      Other(mode) == [mode |-> mode, offset |-> 0, matchedCount |-> 0]
      \* the loop stops at minCount or when the amounts run out
      Sequential(offset) ==
        [mode |-> "sequential", offset |-> offset,
         matchedCount |-> Min(Min(Len(transactionsRaw), Len(amountsRaw)),
                              Len(amountsRaw) - offset)]
  IN Run(IF Len(directTransactions) > 0 THEN Other("direct")
         ELSE IF /\ Len(transactionsRaw) > 0 /\ Len(amountsRaw) > 0
                 /\ Abs(Len(transactionsRaw) - Len(amountsRaw)) <= MaxCountDiff
         THEN Sequential(startOffset(transactionsRaw, amountsRaw))
         ELSE Other("proximity"))

parseAmexFormat(lines) ==
  LET Lists(pass) == AmexMatch(OfKind(pass, "direct"), OfKind(pass, "trans"),
                               OfKind(pass, "amount"))
  IN Lists(AmexFirstPass(lines))

\* the lines a line-by-line parser turns into transactions, in line order
ParsedLines(lines, ParseLine(_)) ==
  LET Pushed(accepted) == [j \in 1..Len(accepted) |-> accepted[j].tx]
  IN Pushed(SelectSeq([j \in 1..Len(lines) |-> ParseLine(lines[j])], LAMBDA r : r.ok))

NoTx == [ok |-> FALSE]

\* yyyy-mm-dd and dd.mm.yy from the captured day, month and 4-digit year
IsoOf(day, month, year) == year \o <<"-">> \o PadStart2(month) \o <<"-">> \o PadStart2(day)
NormalizedDate(day, month, year) ==
  PadStart2(day) \o <<".">> \o PadStart2(month) \o <<".">> \o Slice(year, Len(year) - 1, Len(year))

\* one iteration of the loop of parseStandardBankFormat
StandardBankLine(line) ==
  LET Push(date, description, lower, value) ==
        IF \/ Includes(lower, <<"p", "a", "y", "m", "e", "n", "t">>)
           \/ Includes(lower, <<"c", "r", "e", "d", "i", "t">>)
           \/ Includes(lower, <<"t", "h", "a", "n", "k", " ", "y", "o", "u">>) THEN NoTx
        ELSE IF InvalidAmount(value) THEN NoTx
        ELSE [ok |-> TRUE,
              tx |-> createTransaction(NormalizedDate(date.day, date.month, date.year),
                                       Trim(description), value,
                                       IsoOf(date.day, date.month, date.year))]
      Captures(date, tail) ==
        IF tail.ok /\ IsCurrencyAmount(tail.token)
        THEN Push(date, tail.description, ToLower(tail.description),
                  ParseFloat(Strip(tail.token, CurrencySigns \cup {","})))
        ELSE NoTx
      Match(date) == IF date.ok THEN Captures(date, LazyTail(line, date.next, 1)) ELSE NoTx
  IN Match(SlashDate(line, {"/", "-"}, 4))

parseStandardBankFormat(lines) == ParsedLines(lines, StandardBankLine)

\* one iteration of the loop of parseTabularFormat
TabularLine(line) ==
  LET \* parts: dateStr.split(/[\/\-]/) of the captured date
      Push(parts, description, lower, value) ==
        IF \/ Includes(lower, <<"p", "a", "y", "m", "e", "n", "t">>)
           \/ Includes(lower, <<"c", "r", "e", "d", "i", "t">>) THEN NoTx
        ELSE IF InvalidAmount(value) THEN NoTx
        ELSE [ok |-> TRUE,
              tx |-> createTransaction(NormalizedDate(parts[1], parts[2], parts[3]),
                                       Trim(description), value,
                                       IsoOf(parts[1], parts[2], parts[3]))]
      Captures(date, tail) ==
        IF tail.ok /\ IsCurrencyAmount(tail.token)
        THEN Push(Split(Slice(line, 1, date.next - 1), {"/", "-"}),
                  tail.description, ToLower(tail.description),
                  ParseFloat(Strip(tail.token, CurrencySigns \cup {","})))
        ELSE NoTx
      Match(date) == IF date.ok THEN Captures(date, LazyTail(line, date.next, 2)) ELSE NoTx
  IN Match(SlashDate(line, {"/", "-"}, 4))

parseTabularFormat(lines) == ParsedLines(lines, TabularLine)

monthMap == <<<<"j", "a", "n">>, <<"f", "e", "b">>, <<"m", "a", "r">>, <<"a", "p", "r">>, <<"m", "a", "y">>, <<"j", "u", "n">>,
              <<"j", "u", "l">>, <<"a", "u", "g">>, <<"s", "e", "p">>, <<"o", "c", "t">>, <<"n", "o", "v">>, <<"d", "e", "c">>>>

\* monthMap[month.toLowerCase()] || month
MonthNumber(month) ==
  LET Lookup(map, lower) ==
        IF \E m \in 1..12 : map[m] = lower
        THEN Pad2(CHOOSE m \in 1..12 : map[m] = lower)
        ELSE month
  IN Lookup(monthMap, ToLower(month))

\* the match of nzPatterns[k] on a line, with day, month and 4-digit year as
\* the loop body assigns them
NZPattern(k, line) ==
  LET Captures(date, tail, amountStr) ==
        IF tail.ok /\ IsPlainAmount(amountStr)
        THEN [ok |-> TRUE,
              day |-> date.day,
              month |-> IF k = 1 THEN MonthNumber(date.month) ELSE date.month,
              year |-> IF k = 2 THEN <<"2", "0">> \o date.year ELSE date.year,
              description |-> tail.description,
              amountStr |-> amountStr]
        ELSE NoMatch
      Amounted(date, tail) ==
        IF tail.ok
        THEN Captures(date, tail, IF k = 3 THEN tail.token ELSE NZAmountPart(tail.token))
        ELSE NoMatch
      Match(date) == IF date.ok THEN Amounted(date, LazyTail(line, date.next, 1)) ELSE NoMatch
  IN Match(IF k = 1 THEN MonthNameDate(line)
           ELSE IF k = 2 THEN SlashDate(line, {"/"}, 2)
           ELSE IsoDate(line))

\* whether the loop body reaches the push for a match
NZPushes(match) ==
  LET Kept(lower) ==
        /\ ~Includes(lower, <<"p", "a", "y", "m", "e", "n", "t">>)
        /\ ~Includes(lower, <<"c", "r", "e", "d", "i", "t">>)
        /\ ~Includes(lower, <<"t", "r", "a", "n", "s", "f", "e", "r", " ", "i", "n">>)
        /\ ~InvalidAmount(ParseFloat(Strip(match.amountStr, {","})))
  IN match.ok /\ Kept(ToLower(match.description))

\* whether pattern k matches the line and the loop body reaches the push
NZAccepts(k, line) == NZPushes(NZPattern(k, line))

\* one iteration of the outer loop of parseNZBankFormat: the first pattern
\* that reaches the push ends the inner loop
NZBankLine(line) ==
  LET Push(match) ==
        [ok |-> TRUE,
         tx |-> createTransaction(NormalizedDate(match.day, match.month, match.year),
                                  Trim(match.description),
                                  ParseFloat(Strip(match.amountStr, {","})),
                                  IsoOf(match.day, match.month, match.year))]
      First(matches) ==
        LET Pick(hits) ==
              IF hits = {} THEN NoTx
              ELSE Push(matches[CHOOSE k \in hits : \A m \in hits : k <= m])
        IN Pick({k \in 1..3 : NZPushes(matches[k])})
  IN First([k \in 1..3 |-> NZPattern(k, line)])

parseNZBankFormat(lines) == ParsedLines(lines, NZBankLine)

(***************************************************************************)
(* Format dispatcher (extractTransactions)                                 *)
(***************************************************************************)
\* text.split('\n').map(line => line.trim()).filter(line => line.length > 0)
TextLines(text) ==
  LET raw == Split(text, {Newline})
  IN SelectSeq([j \in 1..Len(raw) |-> Trim(raw[j])], LAMBDA l : Len(l) > 0)

\* the parsers in the order of the parsers array
ParserNames == <<"parseAmexFormat", "parseStandardBankFormat",
                 "parseTabularFormat", "parseNZBankFormat">>

RunParser(k, lines) ==
  IF k = 1 THEN parseAmexFormat(lines)
  ELSE IF k = 2 THEN parseStandardBankFormat(lines)
  ELSE IF k = 3 THEN parseTabularFormat(lines)
  ELSE parseNZBankFormat(lines)

(***************************************************************************)
(* Text line assembler: the parseBuffer callback of POST, folded over the  *)
(* decoder's items.  An item is a record that may lack text or y.          *)
(***************************************************************************)
\* Math.abs(lastY - currentY) > 0.2, in tenths
YTolerance == 2

\* the concatenation of pieces[a..b]
RECURSIVE Concat(_, _, _)
Concat(pieces, a, b) ==
  IF a > b THEN << >>
  ELSE IF a = b THEN pieces[a]
  ELSE LET mid == (a + b) \div 2
       IN Concat(pieces, a, mid) \o Concat(pieces, mid + 1, b)

\* the items the callback does not ignore: else if (item.text)
TextItems(items) ==
  SelectSeq(items, LAMBDA item : "text" \in DOMAIN item /\ item.text # << >>)

\* currentY of the k-th text item: its own y or, without one, lastY ?? 0,
\* where lastY is the currentY of the text item before it
currentY(its, k) ==
  LET withY == {j \in 1..k : "y" \in DOMAIN its[j]}
  IN IF withY = {} THEN 0 ELSE its[CHOOSE j \in withY : \A i \in withY : i <= j].y

\* a flush at every change of y, however small
FlushesOnAnyChange(its, k) ==
  k > 1 /\ currentY(its, k - 1) # currentY(its, k)

\* whether the callback flushes currentLine before it appends the k-th text
\* item: lastY !== null && Math.abs(lastY - currentY) > 0.2 && currentLine
\* (currentLine is non-empty from the first text item on)
Flushes(its, k) ==
  k > 1 /\ Abs(currentY(its, k - 1) - currentY(its, k)) > YTolerance

\* the text the promise resolves with at the end of the stream: every text
\* item followed by a space, a newline at every flush and after the last line
AssembleText(items) ==
  LET its == TextItems(items)
      pieces == [k \in 1..Len(its) |->
                   (IF Flushes(its, k) THEN << Newline >> ELSE << >>) \o its[k].text \o <<" ">>]
  IN IF Len(its) = 0 THEN << >> ELSE Concat(pieces, 1, Len(its)) \o << Newline >>

(***************************************************************************)
(* JSON re-import: normalization (src/src/app/api/upload-json/route.ts).   *)
(* An incoming entry is a record; a field that is present holds            *)
(* a string or a number, see Str and Num below.                            *)
(***************************************************************************)
IsString(entry, f) == f \in DOMAIN entry /\ entry[f].t = "string"
IsNumber(entry, f) == f \in DOMAIN entry /\ entry[f].t = "number"

AllDigits(s, a, b) == \A i \in a..b : IsDigit(At(s, i))

\* parseDateIso; Null for null.  A text in none of the three formats goes to
\* new Date(trimmed), which the texts of this model make an Invalid Date.
parseDateIso(input) ==
  IF input = Null \/ input = << >> THEN Null
  ELSE LET trimmed == Trim(input)
           n == Len(trimmed)
       IN IF /\ n = 10 /\ AllDigits(trimmed, 1, 4) /\ trimmed[5] = "-"
             /\ AllDigits(trimmed, 6, 7) /\ trimmed[8] = "-" /\ AllDigits(trimmed, 9, 10)
          THEN trimmed
          ELSE IF /\ n = 10 /\ AllDigits(trimmed, 1, 2) /\ trimmed[3] = "/"
                  /\ AllDigits(trimmed, 4, 5) /\ trimmed[6] = "/" /\ AllDigits(trimmed, 7, 10)
          THEN Slice(trimmed, 7, 10) \o <<"-">> \o Slice(trimmed, 4, 5) \o <<"-">> \o Slice(trimmed, 1, 2)
          ELSE IF /\ n \in 8..10 /\ AllDigits(trimmed, 1, 2) /\ trimmed[3] = "."
                  /\ AllDigits(trimmed, 4, 5) /\ trimmed[6] = "." /\ AllDigits(trimmed, 7, n)
          THEN (IF n = 8 THEN <<"2", "0">> ELSE << >>) \o Slice(trimmed, 7, n)
                 \o <<"-">> \o Slice(trimmed, 4, 5) \o <<"-">> \o Slice(trimmed, 1, 2)
          ELSE Null

\* raw.replace(/[^0-9.-]/g, '')
RECURSIVE KeepNumeric(_)
KeepNumeric(raw) ==
  IF raw = << >> THEN << >>
  ELSE (IF IsDigit(Head(raw)) \/ Head(raw) \in {".", "-"} THEN << Head(raw) >> ELSE << >>)
         \o KeepNumeric(Tail(raw))

NoValue == NaN

\* attempt of parseValue on field f of the entry
attempt(entry, f) ==
  IF ~IsString(entry, f) THEN NoValue ELSE ParseFloat(KeepNumeric(entry[f].s))

\* parseValue(entry.value, entry.amount); NoValue for null
parseValue(entry) ==
  LET Either(amountValue, stringValue) ==
        IF amountValue # NoValue THEN amountValue ELSE stringValue
  IN IF IsNumber(entry, "value") THEN entry.value.n
     ELSE Either(attempt(entry, "amount"), attempt(entry, "value"))

\* the string field trimmed when it is a non-blank string, else the fallback
TrimmedOr(entry, f, fallback) ==
  LET NonBlank(trimmed) == IF trimmed # << >> THEN trimmed ELSE fallback
  IN IF IsString(entry, f) THEN NonBlank(Trim(entry[f].s)) ELSE fallback

\* the string field as it is when it is a non-blank string, else the fallback
RawOr(entry, f, fallback) ==
  IF IsString(entry, f) /\ Trim(entry[f].s) # << >> THEN entry[f].s ELSE fallback

NotNormalized == [ok |-> FALSE]

normalizeTransaction(entry) ==
  LET Normalized(place, dateIso, value, classification, statementMetadata, currency) ==
        [ok |-> TRUE,
         tx |-> [id |-> IF IsNumber(entry, "id") THEN entry.id.n ELSE NoId,
                 place |-> place,
                 amount |-> TrimmedOr(entry, "amount", currency \o ToFixed2(value)),
                 date |-> TrimmedOr(entry, "date", dateIso),
                 currency |-> currency,
                 value |-> value,
                 date_iso |-> dateIso,
                 category |-> TrimmedOr(entry, "category", classification.category),
                 subcategory |-> TrimmedOr(entry, "subcategory", classification.subcategory),
                 statement_id |-> RawOr(entry, "statement_id", statementMetadata.statement_id),
                 statement_start |-> RawOr(entry, "statement_start", statementMetadata.statement_start),
                 statement_end |-> RawOr(entry, "statement_end", statementMetadata.statement_end)]]
      Checked(place, dateIso, value) ==
        IF place = << >> \/ dateIso = Null \/ value = NoValue THEN NotNormalized
        ELSE Normalized(place, dateIso, value, categorizeMerchant(place),
                        computeStatementMetadata(dateIso),
                        TrimmedOr(entry, "currency", <<"N", "Z", "$">>))
      \* a || b, for a date
      Either(fromDateIso, fromDate) == IF fromDateIso # Null THEN fromDateIso ELSE fromDate
  IN Checked(IF IsString(entry, "place") THEN Trim(entry.place.s) ELSE << >>,
             Either(parseDateIso(IF IsString(entry, "date_iso") THEN entry.date_iso.s ELSE Null),
                    parseDateIso(IF IsString(entry, "date") THEN entry.date.s ELSE Null)),
             parseValue(entry))

\* payload.map(normalizeTransaction).filter(Boolean)
NormalizePayload(payload) == ParsedLines(payload, normalizeTransaction)

(***************************************************************************)
(* Reconciliation against the existing transactions (POST of upload-pdf,   *)
(* persistTransactions of upload-json)                                     *)
(***************************************************************************)
\* the key with the whitespace runs of the place collapsed
TxKeyCollapsing(tx) == tx.date_iso \o <<"|">> \o normalize(tx.place)

\* `${tx.date_iso}|${tx.place.trim().toLowerCase()}`
TxKey(tx) == tx.date_iso \o <<"|">> \o ToLower(Trim(tx.place))

\* existingMap.get(key): position of the record the Map holds under the key
\* (a later entry replaces an earlier one with the same key), 0 for none
existingMapGet(existing, key) ==
  LET Last(S) == IF S = {} THEN 0 ELSE CHOOSE i \in S : \A j \in S : j <= i
  IN Last({i \in 1..Len(existing) : TxKey(existing[i]) = key})

\* Math.abs(existing.value - newTx.value) > 0.01
valueDiffers(existing, newTx) ==
  CompareGapToCent(existing.value, newTx.value) = "greater"

categoryDiffers(existing, newTx) ==
  existing.category # newTx.category \/ existing.subcategory # newTx.subcategory

\* { ...existing, ...newTx }
Spread(existing, newTx) ==
  [f \in (DOMAIN existing) \cup (DOMAIN newTx) |->
     IF f \in DOMAIN newTx THEN newTx[f] ELSE existing[f]]

\* the filter callback: keep newTx as new?
IsNewTransaction(existing, newTx) == existingMapGet(existing, TxKey(newTx)) = 0

\* the filter callback: does newTx queue an update?
QueuesUpdate(existing, newTx) ==
  LET Differs(e) ==
        /\ e # 0
        /\ valueDiffers(existing[e], newTx) \/ categoryDiffers(existing[e], newTx)
        /\ "id" \in DOMAIN existing[e] /\ existing[e].id # NoId
  IN Differs(existingMapGet(existing, TxKey(newTx)))

UpdateFor(existing, newTx) ==
  LET Update(e) == [id |-> existing[e].id, data |-> Spread(existing[e], newTx)]
  IN Update(existingMapGet(existing, TxKey(newTx)))

\* a faulty reconciliation whose filter keeps what it queued as an update
ReconcileKeepingUpdated(existing, submitted) ==
  LET Counted(fresh, upd) ==
        [newTransactions |-> fresh, updates |-> upd,
         duplicateCount |-> Len(submitted) - Len(fresh) - Len(upd)]
      Queued(queued) == [i \in 1..Len(queued) |-> UpdateFor(existing, queued[i])]
  IN Counted(SelectSeq(submitted, LAMBDA tx : \/ IsNewTransaction(existing, tx)
                                              \/ QueuesUpdate(existing, tx)),
             Queued(SelectSeq(submitted, LAMBDA tx : QueuesUpdate(existing, tx))))

Reconcile(existing, submitted) ==
  LET Counted(fresh, upd) ==
        [newTransactions |-> fresh,
         updates |-> upd,
         duplicateCount |-> Len(submitted) - Len(fresh) - Len(upd)]
      Queued(queued) == [i \in 1..Len(queued) |-> UpdateFor(existing, queued[i])]
  IN Counted(SelectSeq(submitted, LAMBDA tx : IsNewTransaction(existing, tx)),
             Queued(SelectSeq(submitted, LAMBDA tx : QueuesUpdate(existing, tx))))

(***************************************************************************)
(* Inputs of the model                                                     *)
(***************************************************************************)
\* longest statement body, longest JSON payload, most stored records
MaxBodyLines == 2
MaxPayload == 2
MaxStore == 2

\* all sequences over S of length lo..hi
SeqsOf(S, lo, hi) == UNION {[1..n -> S] : n \in lo..hi}

HeaderLine == <<"A", "c", "c", "o", "u", "n", "t", " ", "s", "u", "m", "m", "a", "r", "y">>

\* statement lines the parsers see
LineDirect == <<"2", "9", " ", ".", " ", "0", "8", " ", ".", " ", "2", "5", " ", "O", "P", "E", "N", "A", "I", " ", " ", "S", "F", " ", "1", "0", ".", "0", "2">>
LineDirectZero == <<"3", "0", ".", "0", "8", ".", "2", "5", " ", "U", "B", "E", "R", " ", "T", "R", "I", "P", " ", "0", ".", "0", "0">>
LineDirectCeiling == <<"3", "1", ".", "0", "8", ".", "2", "5", " ", "K", "M", "A", "R", "T", " ", "5", "0", ",", "0", "0", "0", ".", "0", "0">>
LineDirectPayment == <<"0", "2", ".", "0", "9", ".", "2", "5", " ", "P", "A", "Y", "M", "E", "N", "T", " ", "-", " ", "T", "H", "A", "N", "K", " ", "Y", "O", "U", " ", "1", "0", "0", ".", "0", "0">>
LineTrans == <<"0", "1", ".", "0", "9", ".", "2", "5", " ", "S", "K", "I", "N", "N", "Y", " ", "M", "O", "B", "I", "L", "E">>
LineAmount == <<"4", "0", ".", "0", "0">>
LineAmountZero == <<"0", ".", "0", "0">>
LineAmountCeiling == <<"5", "0", ",", "0", "0", "0", ".", "0", "0">>
LineStandard == <<"2", "9", "/", "0", "8", "/", "2", "0", "2", "5", " ", "C", "O", "U", "N", "T", "D", "O", "W", "N", " ", "$", "4", "5", ".", "2", "0">>
LineStandardCeiling == <<"3", "0", "-", "0", "8", "-", "2", "0", "2", "5", " ", "I", "K", "E", "A", " ", "$", "5", "0", "0", "0", "0">>
LineStandardNaN == <<"3", "0", "/", "0", "8", "/", "2", "0", "2", "5", " ", "N", "E", "T", "F", "L", "I", "X", " ", ",">>
LineTabularOnly == <<"2", "9", "/", "0", "8", "/", "2", "0", "2", "5", " ", " ", "T", "H", "A", "N", "K", " ", "Y", "O", "U", " ", "C", "A", "F", "E", " ", " ", "$", "5", ".", "0", "0">>
LineTabularZero == <<"3", "0", "/", "0", "8", "/", "2", "0", "2", "5", " ", " ", "T", "H", "A", "N", "K", " ", "Y", "O", "U", " ", "D", "E", "L", "I", " ", " ", "$", "0">>
LineNZMonth == <<"2", "9", " ", "A", "u", "g", " ", "2", "0", "2", "5", " ", "C", "A", "F", "E", " ", "N", "Z", "$", "4", ".", "5", "0">>
LineNZShortZero == <<"2", "9", "/", "0", "8", "/", "2", "5", " ", "L", "I", "M", "E", " ", "$", "0", ".", "0", "0">>
LineNZIso == <<"2", "0", "2", "5", "-", "0", "8", "-", "2", "9", " ", "B", "P", " ", "4", "9", ",", "9", "9", "9", ".", "9", "9">>
LineNZIsoCeiling == <<"2", "0", "2", "5", "-", "0", "8", "-", "3", "0", " ", "B", "P", " ", "5", "0", "0", "0", "0", ".", "0", "0">>
LineOther == <<"O", "p", "e", "n", "i", "n", "g", " ", "b", "a", "l", "a", "n", "c", "e">>

LinePool ==
  {LineDirect, LineDirectZero, LineDirectCeiling, LineTrans, LineAmount,
   LineStandard, LineStandardCeiling, LineStandardNaN, LineTabularOnly, LineTabularZero,
   LineNZMonth, LineNZShortZero, LineNZIso, LineNZIsoCeiling, LineOther}

\* a statement: header lines, then the body
Statement(header, body) == [j \in 1..(header + Len(body)) |->
                              IF j <= header THEN HeaderLine ELSE body[j - header]]

\* split-mode statements: the counts differ by more than MaxCountDiff, so the
\* amounts are found by proximity; amounts out of range and the minimum
\* payment are among the candidates
ProximityStatements ==
  {Statement(SummaryLines, <<LineTrans, LineAmountZero, LineAmount, LineAmountCeiling,
                             LineAmount, LineAmount, LineAmount>>),
   Statement(SummaryLines, <<LineAmount, LineAmount, LineAmountCeiling, LineAmount,
                             LineAmount, LineTrans>>)}

\* a statement whose summary section starts with the lines of prefix: the
\* summary is filled up to SummaryLines lines, then comes the body
StatementWith(prefix, body) ==
  [j \in 1..(SummaryLines + Len(body)) |->
     IF j <= Len(prefix) THEN prefix[j]
     ELSE IF j <= SummaryLines THEN HeaderLine
     ELSE body[j - SummaryLines]]

LineMinPayment == <<"M", "i", "n", "i", "m", "u", "m", " ", "P", "a", "y", "m", "e", "n", "t", " ", "$", "4", "0", ".", "0", "0">>
LineTransDecoy == <<"1", "5", ".", "0", "8", ".", "2", "5", " ", "N", "E", "T", "F", "L", "I", "X">>
LineTransSpotify == <<"0", "2", ".", "0", "9", ".", "2", "5", " ", "S", "P", "O", "T", "I", "F", "Y", " ", " ", "P", "R", "E", "M", "I", "U", "M">>
LineAmountUber == <<"2", "5", ".", "5", "0">>
LineAmountSmall == <<"1", "2", ".", "3", "0">>
LineAmountNearMin == <<"4", "0", ".", "0", "1">>

\* statements with a minimum payment of 40.00, a transaction line and an
\* amount in the summary section: the amounts after it are as many as the
\* transaction lines once 40.00 and 40.01 (less than 0.01 from 40.00 in
\* doubles) are left out
SummaryPrefix == <<LineMinPayment, LineTransDecoy, LineAmountSmall>>
MinPaymentStatements ==
  {StatementWith(SummaryPrefix, b) :
     b \in {<<LineTrans, LineAmountUber>>,
            <<LineTrans, LineAmount, LineAmountUber>>,
            <<LineTrans, LineAmountNearMin, LineAmountUber>>,
            <<LineTrans, LineTransSpotify, LineAmountUber, LineAmountSmall>>,
            <<LineAmountUber, LineTrans, LineAmountSmall, LineTransSpotify>>}}

\* a standard-bank line of LineStandard's merchant and amount on day d of
\* month m of year y
DateLine(y, m, d) ==
  Pad2(d) \o <<"/">> \o Pad2(m) \o <<"/">> \o Pad4(y) \o SubSeq(LineStandard, 11, Len(LineStandard))

\* one-line statements around the cycle boundary of every month of a leap
\* year and of a common year, the days no month has and month 13 included
DateYears == {2024, 2025}
DateMonths == 1..13
DateDays == {1, 26, 27, 28, 29, 30, 31}
DateStatements == {<<DateLine(y, m, d)>> : y \in DateYears, m \in DateMonths, d \in DateDays}

\* PayPal payments to merchants of PAYPAL_OVERRIDES, one with a keyword of
\* CATEGORY_RULES in the description
LinePaypalLaucolla == <<"0", "3", "/", "0", "9", "/", "2", "0", "2", "5", " ", "P", "A", "Y", "P", "A", "L", " ", "*", "L", "A", "U", "C", "O", "L", "L", "A", " ", "$", "8", "0", ".", "0", "0">>
LinePaypalMarianoCafe == <<"0", "4", "/", "0", "9", "/", "2", "0", "2", "5", " ", "P", "A", "Y", "P", "A", "L", " ", "*", "M", "A", "R", "I", "A", "N", "O", " ", "C", "A", "F", "E", " ", "$", "3", "5", ".", "0", "0">>
PaypalStatements == {<<LinePaypalLaucolla>>, <<LinePaypalMarianoCafe>>}

\* four transaction lines and one amount after the summary: the counts
\* differ by more than MaxCountDiff and every transaction line has the one
\* amount within AfterWindow
ContendedStatements ==
  {Statement(SummaryLines, <<LineTrans, LineTransSpotify, LineTransDecoy, LineTrans,
                             LineAmountUber>>)}

\* a standard-bank line with the keyword as the merchant
KeywordLine(keyword) ==
  SubSeq(LineStandard, 1, 11) \o keyword \o SubSeq(LineStandard, 21, Len(LineStandard))

\* one-line statements, one for every keyword of CATEGORY_RULES
KeywordStatements ==
  UNION {{<<KeywordLine(CATEGORY_RULES[r].keywords[k])>> :
            k \in 1..Len(CATEGORY_RULES[r].keywords)} : r \in 1..Len(CATEGORY_RULES)}

LineDirectUber == <<"3", "0", ".", "0", "8", ".", "2", "5", " ", "U", "B", "E", "R", " ", "T", "R", "I", "P", " ", "2", "5", ".", "5", "0">>

\* direct-mode lines in the summary section and after it, with a transaction
\* line and an amount of their own between them
DirectStatements ==
  {StatementWith(<<LineDirect>>, <<LineTrans, LineAmountUber, LineDirectUber>>),
   StatementWith(<<LineTransDecoy, LineDirectUber>>, <<LineAmountSmall, LineTrans>>)}

\* split-mode statements matched by proximity: an amount before the
\* transaction line and the next amounts more than AfterWindow lines after it,
\* and an amount on either side of the transaction line
WindowStatements ==
  {Statement(SummaryLines, <<LineAmountSmall, LineTrans, LineOther, LineOther, LineOther,
                             LineOther, LineOther, LineAmountUber, LineAmount, LineAmount,
                             LineAmount>>),
   Statement(SummaryLines, <<LineAmountSmall, LineTrans, LineAmountUber, LineAmount,
                             LineAmount, LineAmount>>)}

\* a split-mode statement aligned sequentially from a start offset: two
\* amounts more than BeforeWindow lines before the first transaction line,
\* two transaction lines, one amount after them
OffsetStatements ==
  {Statement(SummaryLines, <<LineAmountSmall, LineAmountUber>>
                           \o [j \in 1..BeforeWindow |-> LineOther]
                           \o <<LineTrans, LineTransSpotify, LineAmount>>)}

\* the lines that follow a summary header in the statements of the model
SplitPool == {LineTrans, LineAmount, LineAmountCeiling, LineDirect, LineStandard, LineOther}

ParserStatements ==
  {Statement(0, b) : b \in SeqsOf(LinePool, 1, MaxBodyLines)}
    \cup {Statement(SummaryLines, b) : b \in SeqsOf(SplitPool, 1, MaxBodyLines)}
    \cup {Statement(SummaryLines, <<LineTrans, l, LineAmount>>) :
            l \in {LineAmountZero, LineAmountCeiling, LineDirectPayment}}
    \cup ProximityStatements
    \cup MinPaymentStatements
    \cup DateStatements
    \cup PaypalStatements
    \cup ContendedStatements
    \cup KeywordStatements
    \cup DirectStatements
    \cup WindowStatements
    \cup OffsetStatements

\* the decoder's items for a statement: one item per line, one unit apart
ItemsOf(lines) == [j \in 1..Len(lines) |-> [text |-> lines[j], y |-> 10 * j]]

LineDirectLower == <<"2", "9", ".", "0", "8", ".", "2", "5", " ", "o", "p", "e", "n", "a", "i", " ", " ", "s", "f", " ", "1", "5", ".", "0", "0">>

\* LineDirect with one space in the merchant, and on the next day
LineDirectOneSpace == <<"2", "9", ".", "0", "8", ".", "2", "5", " ", "O", "P", "E", "N", "A", "I", " ", "S", "F", " ", "1", "0", ".", "0", "2">>
LineDirectNextDay == <<"3", "0", ".", "0", "8", ".", "2", "5", " ", "O", "P", "E", "N", "A", "I", " ", " ", "S", "F", " ", "1", "0", ".", "0", "2">>

\* the statement of LineDirect as the decoder may cut it: fragments of one
\* line, one without y, one within the tolerance
FragmentedItems ==
  << [text |-> <<"2", "9", " ", ".", " ", "0", "8", " ", ".", " ", "2", "5">>, y |-> 10],
     [text |-> <<"O", "P", "E", "N", "A", "I", " ", " ", "S", "F">>],
     [y |-> 40],
     [text |-> <<"1", "0", ".", "0", "2">>, y |-> 11],
     [text |-> LineDirectUber, y |-> 20] >>

\* the fragments of LineDirect drifting down by the tolerance from one to the
\* next, then a line further down
DriftingItems ==
  << [text |-> <<"2", "9", " ", ".", " ", "0", "8", " ", ".", " ", "2", "5">>, y |-> 10],
     [text |-> <<"O", "P", "E", "N", "A", "I", " ", " ", "S", "F">>, y |-> 12],
     [text |-> <<"1", "0", ".", "0", "2">>, y |-> 14],
     [text |-> LineDirectUber, y |-> 30] >>

\* two lines from a decoder that reports no y
ItemsWithoutY == << [text |-> LineDirect], [text |-> LineDirectUber] >>

\* the PDF uploads of the model, as the decoder's item streams
PdfRequests ==
  {ItemsOf(st) : st \in {<< >>, <<LineOther>>, <<LineDirect>>,
                         <<LineDirect, LineDirectLower>>,
                         <<LineStandard, LineStandardNaN>>,
                         <<LineDirectOneSpace, LineDirectNextDay>>,
                         Statement(SummaryLines, <<LineTrans, LineAmount>>)}}
    \cup {FragmentedItems, DriftingItems, ItemsWithoutY}

\* a JSON value: a string (its characters in s) or a number (in n)
Str(v) == [t |-> "string", s |-> v, n |-> 0]
Num(v) == [t |-> "number", s |-> << >>, n |-> v]

\* incoming JSON records
EntryOpenAI == [place |-> Str(<<"O", "P", "E", "N", "A", "I", " ", " ", "S", "F">>), date_iso |-> Str(<<"2", "0", "2", "5", "-", "0", "8", "-", "2", "9">>), value |-> Num(1002)]
EntryAmountString ==
  [place |-> Str(<<" ", "o", "p", "e", "n", "a", "i", " ", " ", "s", "f", " ">>), date |-> Str(<<"2", "9", ".", "0", "8", ".", "2", "5">>), amount |-> Str(<<"$", "1", "5", ".", "0", "0">>),
   category |-> Str(<<"O", "t", "h", "e", "r">>), id |-> Num(7)]
EntryNegative == [place |-> Str(<<"R", "E", "F", "U", "N", "D">>), date_iso |-> Str(<<"2", "0", "2", "5", "-", "0", "8", "-", "3", "0">>), value |-> Num(-500)]
EntryCeiling == [place |-> Str(<<"C", "A", "R">>), date |-> Str(<<"3", "0", "/", "0", "8", "/", "2", "0", "2", "5">>), value |-> Str(<<"5", "0", "0", "0", "0">>)]
EntryNoPlace == [date_iso |-> Str(<<"2", "0", "2", "5", "-", "0", "8", "-", "3", "0">>), value |-> Num(100)]

EntryPool == {EntryOpenAI, EntryAmountString, EntryNegative, EntryCeiling, EntryNoPlace}

JsonRequests == SeqsOf(EntryPool, 0, MaxPayload)

\* stored records: the transaction of LineDirect as stored, with another
\* value, with another classification and one cent above (10.03 - 10.02 is
\* below 0.01 in doubles), and the transaction of LineStandard one cent below
\* (45.20 - 45.19 is above 0.01 in doubles)
StoredOpenAI == createTransaction(<<"2", "9", ".", "0", "8", ".", "2", "5">>, <<"O", "P", "E", "N", "A", "I", " ", " ", "S", "F">>, 1002, <<"2", "0", "2", "5", "-", "0", "8", "-", "2", "9">>)
StoredOpenAIValue == [StoredOpenAI EXCEPT !.place = <<" ", "O", "p", "e", "n", "a", "i", " ", " ", "S", "F">>, !.value = 1500]
StoredOpenAICategory ==
  [StoredOpenAI EXCEPT !.category = OtherGeneral.category, !.subcategory = OtherGeneral.subcategory]
StoredOpenAICent == [StoredOpenAI EXCEPT !.value = 1003]
StoredCountdownCent == createTransaction(<<"2", "9", ".", "0", "8", ".", "2", "5">>, <<"C", "O", "U", "N", "T", "D", "O", "W", "N">>, 4519, <<"2", "0", "2", "5", "-", "0", "8", "-", "2", "9">>)

StoredPool == {StoredOpenAI, StoredOpenAIValue, StoredOpenAICategory, StoredOpenAICent,
               StoredCountdownCent}

\* the store's records carry the ids the store assigned: 1, 2, ...; the stores
\* of the model hold up to MaxStore different records of the pool
WithId(tx, id) == [f \in (DOMAIN tx) \cup {"id"} |-> IF f = "id" THEN id ELSE tx[f]]
Stores ==
  {[i \in 1..Len(recs) |-> WithId(recs[i], i)] :
     recs \in {r \in SeqsOf(StoredPool, 0, MaxStore) :
                 \A i, j \in 1..Len(r) : i # j => r[i] # r[j]}}

(***************************************************************************)
(* The upload handlers as a state machine                                  *)
(***************************************************************************)
VARIABLES
  route,                 \* "pdf" (upload-pdf POST) or "json" (upload-json POST)
  apiKey,                \* whether process.env.API_KEY is set
  request,               \* pdf: the decoder's items; json: the payload array
  pc,                    \* position of the handler
  decoder,               \* "pending", "resolved" or "error": the decoding promise
  text,                  \* the text the decoding promise resolved with
  parserIdx,             \* position of extractTransactions in the parsers array
  consulted,             \* the parsers called so far, each with what it returned
  transactions,          \* the extracted (pdf) or normalized (json) transactions
  store,                 \* the records of the remote store
  fetched,               \* whether the existing transactions have been fetched
  existingTransactions,
  updates,
  newTransactions,
  duplicateCount,
  patched,               \* number of updates whose PATCH succeeded
  calls,                 \* the calls issued to the store, in order
  response               \* the HTTP response, once the handler returned

vars == <<route, apiKey, request, pc, decoder, text, parserIdx, consulted, transactions,
          store, fetched, existingTransactions, updates, newTransactions, duplicateCount,
          patched, calls, response>>

Absent == -1
NoResponse ==
  [status |-> 0, success |-> FALSE, error |-> "", transactions |-> << >>, count |-> Absent,
   duplicateCount |-> Absent, updated |-> Absent, saved |-> FALSE]

\* NextResponse.json({ error }, { status })
ErrorResponse(status, error) == [NoResponse EXCEPT !.status = status, !.error = error]

\* a faulty catch of the save step that answers with the error alone
SaveErrorResponseBare(error) == ErrorResponse(500, error)

\* the catch of the save step: upload-pdf returns the extracted transactions
\* with the error, upload-json only the message of the error
SaveErrorResponse(error) ==
  IF route = "pdf"
  THEN [NoResponse EXCEPT !.status = 500,
                          !.error = "Transactions extracted but failed to save to database",
                          !.transactions = transactions,
                          !.count = Len(transactions)]
  ELSE ErrorResponse(500, error)

SuccessResponse(txs, dup, upd, saved) ==
  [NoResponse EXCEPT !.status = 200, !.success = TRUE, !.transactions = txs,
                     !.count = Len(txs), !.duplicateCount = dup, !.updated = upd,
                     !.saved = saved]

StoreCall(op, ok, id, body) == [op |-> op, ok |-> ok, id |-> id, body |-> body]

Idle ==
  /\ pc = "auth" /\ decoder = "pending" /\ text = << >> /\ parserIdx = 1
  /\ consulted = << >> /\ transactions = << >> /\ fetched = FALSE
  /\ existingTransactions = << >> /\ updates = << >> /\ newTransactions = << >>
  /\ duplicateCount = Absent /\ patched = 0 /\ calls = << >> /\ response = NoResponse

Init ==
  /\ route \in {"pdf", "json"}
  /\ request \in IF route = "pdf" THEN PdfRequests ELSE JsonRequests
  /\ apiKey \in BOOLEAN
  /\ store \in Stores
  /\ Idle

Respond(r) == pc' = "done" /\ response' = r

\* getServerSession: without a session the handler answers 401
Authenticate ==
  /\ pc = "auth"
  /\ \E session \in BOOLEAN :
       IF session
       THEN /\ pc' = IF route = "pdf" THEN "decode" ELSE "body"
            /\ UNCHANGED response
       ELSE Respond(ErrorResponse(401, "Unauthorized"))
  /\ UNCHANGED <<route, apiKey, request, decoder, text, parserIdx, consulted, transactions,
                 store, fetched, existingTransactions, updates, newTransactions,
                 duplicateCount, patched, calls>>

\* a faulty decoding step in which an error of the decoder does not end the
\* upload: the handler goes on with an empty text
DecodeErrorIgnored ==
  /\ pc = "decode"
  /\ \E outcome \in {"nofile", "error", "resolved"} :
       \/ /\ outcome = "nofile"
          /\ Respond(ErrorResponse(400, "No file provided"))
          /\ UNCHANGED <<decoder, text>>
       \/ /\ outcome = "error"
          /\ decoder' = "error"
          /\ pc' = "extract"
          /\ UNCHANGED <<text, response>>
       \/ /\ outcome = "resolved"
          /\ decoder' = "resolved"
          /\ text' = AssembleText(request)
          /\ pc' = "extract"
          /\ UNCHANGED response
  /\ UNCHANGED <<route, apiKey, request, parserIdx, consulted, transactions,
                 store, fetched, existingTransactions, updates, newTransactions,
                 duplicateCount, patched, calls>>

\* upload-pdf: the form's file and the decoding promise.  A missing file is
\* answered with 400; an error of the decoder rejects the promise and the
\* outer catch answers 500; otherwise the promise resolves with the text.
Decode ==
  /\ pc = "decode"
  /\ \E outcome \in {"nofile", "error", "resolved"} :
       \/ /\ outcome = "nofile"
          /\ Respond(ErrorResponse(400, "No file provided"))
          /\ UNCHANGED <<decoder, text>>
       \/ /\ outcome = "error"
          /\ decoder' = "error"
          /\ Respond(ErrorResponse(500, "Failed to parse PDF"))
          /\ UNCHANGED text
       \/ /\ outcome = "resolved"
          /\ decoder' = "resolved"
          /\ text' = AssembleText(request)
          /\ pc' = "extract"
          /\ UNCHANGED response
  /\ UNCHANGED <<route, apiKey, request, parserIdx, consulted, transactions,
                 store, fetched, existingTransactions, updates, newTransactions,
                 duplicateCount, patched, calls>>

\* a faulty dispatcher that goes on after a parser succeeded and merges
DispatchMerging ==
  /\ pc = "extract"
  /\ \E found \in {RunParser(parserIdx, TextLines(text))} :
        /\ consulted' = Append(consulted, [parser |-> ParserNames[parserIdx], output |-> found])
        /\ transactions' = transactions \o found
        /\ IF parserIdx = Len(ParserNames)
           THEN pc' = "config" /\ UNCHANGED parserIdx
           ELSE parserIdx' = parserIdx + 1 /\ UNCHANGED pc
  /\ UNCHANGED <<route, apiKey, request, decoder, text, store, fetched, existingTransactions,
                 updates, newTransactions, duplicateCount, patched, calls, response>>

\* one iteration of the loop of extractTransactions
TryParser ==
  /\ pc = "extract"
  /\ \E found \in {RunParser(parserIdx, TextLines(text))} :
        /\ consulted' = Append(consulted, [parser |-> ParserNames[parserIdx], output |-> found])
        /\ IF Len(found) > 0
           THEN /\ transactions' = found
                /\ pc' = "config"
                /\ UNCHANGED parserIdx
           ELSE IF parserIdx = Len(ParserNames)
           THEN /\ transactions' = << >>
                /\ pc' = "config"
                /\ UNCHANGED parserIdx
           ELSE /\ parserIdx' = parserIdx + 1
                /\ UNCHANGED <<transactions, pc>>
  /\ UNCHANGED <<route, apiKey, request, decoder, text, store, fetched, existingTransactions,
                 updates, newTransactions, duplicateCount, patched, calls, response>>

\* upload-json: the payload is normalized; an empty payload and a payload
\* without a valid record are answered with 400
NormalizeBody ==
  /\ pc = "body"
  /\ \E normalized \in {NormalizePayload(request)} :
        IF Len(request) = 0
        THEN /\ Respond(ErrorResponse(400, "No transactions provided in request body"))
             /\ UNCHANGED transactions
        ELSE IF Len(normalized) = 0
        THEN /\ Respond(ErrorResponse(400, "No valid transactions found in payload"))
             /\ UNCHANGED transactions
        ELSE /\ transactions' = normalized
             /\ pc' = "config"
             /\ UNCHANGED response
  /\ UNCHANGED <<route, apiKey, request, decoder, text, parserIdx, consulted,
                 store, fetched, existingTransactions, updates, newTransactions,
                 duplicateCount, patched, calls>>

\* a faulty configuration step that goes on without the key
ApiKeyNotChecked ==
  /\ pc = "config"
  /\ pc' = "fetch"
  /\ UNCHANGED <<route, apiKey, request, decoder, text, parserIdx, consulted, transactions,
                 store, fetched, existingTransactions, updates, newTransactions,
                 duplicateCount, patched, calls, response>>

\* if (!apiKey): upload-pdf returns the 500 response, persistTransactions
\* throws and the catch of upload-json answers 500 with the message
CheckApiKey ==
  /\ pc = "config"
  /\ IF apiKey
     THEN pc' = "fetch" /\ UNCHANGED response
     ELSE Respond(ErrorResponse(500, "API key not configured"))
  /\ UNCHANGED <<route, apiKey, request, decoder, text, parserIdx, consulted, transactions,
                 store, fetched, existingTransactions, updates, newTransactions,
                 duplicateCount, patched, calls>>

\* GET of the existing transactions, then the reconciliation
FetchExisting ==
  /\ pc = "fetch"
  /\ \E ok \in BOOLEAN :
       /\ calls' = Append(calls, StoreCall("GET", ok, NoId, << >>))
       /\ IF ok
          THEN \E r \in {Reconcile(store, transactions)} :
                  /\ fetched' = TRUE
                  /\ existingTransactions' = store
                  /\ updates' = r.updates
                  /\ newTransactions' = r.newTransactions
                  /\ duplicateCount' = r.duplicateCount
                  /\ pc' = "patch"
                  /\ UNCHANGED response
          ELSE /\ Respond(SaveErrorResponse("Failed to fetch existing transactions"))
               /\ UNCHANGED <<fetched, existingTransactions, updates, newTransactions,
                              duplicateCount>>
  /\ UNCHANGED <<route, apiKey, request, decoder, text, parserIdx, consulted, transactions,
                 store, patched>>

\* the store applies a PATCH to the record with the id: category, subcategory
\* and value
ApplyPatch(st, id, data) ==
  [i \in 1..Len(st) |->
     IF st[i].id = id
     THEN [st[i] EXCEPT !.category = data.category, !.subcategory = data.subcategory,
                        !.value = data.value]
     ELSE st[i]]

\* the store inserts the records of a bulk POST under fresh ids
ApplyBulk(st, txs) ==
  st \o [i \in 1..Len(txs) |-> WithId(txs[i], Len(st) + i)]

\* one iteration of the loop over updates
PatchUpdate ==
  /\ pc = "patch"
  /\ patched < Len(updates)
  /\ \E update \in {updates[patched + 1]} :
        \E ok \in BOOLEAN :
          /\ calls' = Append(calls, StoreCall("PATCH", ok, update.id, << update.data >>))
          /\ IF ok
             THEN /\ store' = ApplyPatch(store, update.id, update.data)
                  /\ patched' = patched + 1
                  /\ UNCHANGED <<pc, response>>
             ELSE /\ Respond(SaveErrorResponse("Failed to update existing transaction"))
                  /\ UNCHANGED <<store, patched>>
  /\ UNCHANGED <<route, apiKey, request, decoder, text, parserIdx, consulted, transactions,
                 fetched, existingTransactions, updates, newTransactions, duplicateCount>>

\* after the loop: nothing new to insert
FinishWithoutInsert ==
  /\ pc = "patch"
  /\ patched = Len(updates)
  /\ Len(newTransactions) = 0
  /\ Respond(SuccessResponse(<< >>, duplicateCount, Len(updates), Len(updates) > 0))
  /\ UNCHANGED <<route, apiKey, request, decoder, text, parserIdx, consulted, transactions,
                 store, fetched, existingTransactions, updates, newTransactions,
                 duplicateCount, patched, calls>>

\* a faulty insert step that does not wait for the loop over updates
BulkInsertBeforeUpdates ==
  /\ pc = "patch"
  /\ Len(newTransactions) > 0
  /\ \E ok \in BOOLEAN :
       /\ calls' = Append(calls, StoreCall("BULK", ok, NoId, newTransactions))
       /\ IF ok
          THEN /\ store' = ApplyBulk(store, newTransactions)
               /\ Respond(SuccessResponse(newTransactions, duplicateCount, Len(updates), TRUE))
          ELSE /\ Respond(SaveErrorResponse("Failed to save transactions to database"))
               /\ UNCHANGED store
  /\ UNCHANGED <<route, apiKey, request, decoder, text, parserIdx, consulted, transactions,
                 fetched, existingTransactions, updates, newTransactions, duplicateCount,
                 patched>>

\* after the loop: POST /transactions/bulk
BulkInsert ==
  /\ pc = "patch"
  /\ patched = Len(updates)
  /\ Len(newTransactions) > 0
  /\ \E ok \in BOOLEAN :
       /\ calls' = Append(calls, StoreCall("BULK", ok, NoId, newTransactions))
       /\ IF ok
          THEN /\ store' = ApplyBulk(store, newTransactions)
               /\ Respond(SuccessResponse(newTransactions, duplicateCount, Len(updates), TRUE))
          ELSE /\ Respond(SaveErrorResponse("Failed to save transactions to database"))
               /\ UNCHANGED store
  /\ UNCHANGED <<route, apiKey, request, decoder, text, parserIdx, consulted, transactions,
                 fetched, existingTransactions, updates, newTransactions, duplicateCount,
                 patched>>

Next ==
  \/ Authenticate
  \/ Decode
  \/ TryParser
  \/ NormalizeBody
  \/ CheckApiKey
  \/ FetchExisting
  \/ PatchUpdate
  \/ FinishWithoutInsert
  \/ BulkInsert

Spec == Init /\ [][Next]_vars

(***************************************************************************)
(* The same upload sent again: after a successful upload the handler is     *)
(* called once more with the same request, against the store as the first  *)
(* upload left it                                                           *)
(***************************************************************************)
\* the positions in calls of the fetches of the existing transactions: one
\* for every upload that reached the store
Fetches == {k \in 1..Len(calls) : calls[k].op = "GET"}

\* the second POST of the request: every local of the handler starts afresh,
\* the store and the log of the calls it received remain
Reupload ==
  /\ pc = "done" /\ response.success
  /\ Cardinality(Fetches) = 1
  /\ pc' = "auth" /\ decoder' = "pending" /\ text' = << >> /\ parserIdx' = 1
  /\ consulted' = << >> /\ transactions' = << >> /\ fetched' = FALSE
  /\ existingTransactions' = << >> /\ updates' = << >> /\ newTransactions' = << >>
  /\ duplicateCount' = Absent /\ patched' = 0 /\ response' = NoResponse
  /\ UNCHANGED <<route, apiKey, request, store, calls>>

NextReupload ==
  \/ Next
  \/ Reupload

SpecReupload == Init /\ [][NextReupload]_vars

(***************************************************************************)
(* Two uploads of one statement at the same time: two calls of the handler *)
(* that extracted the same transactions and now run the save step against  *)
(* the same store, each call of the store being one step.  Here pc,        *)
(* fetched, existingTransactions, updates, newTransactions, duplicateCount,*)
(* patched and response hold the locals of each of the two calls.          *)
(***************************************************************************)
Uploads == {1, 2}

\* extractTransactions: what the first parser that finds any transaction
\* returns
ExtractedFrom(lines) ==
  LET Found(finders) ==
        IF finders = {} THEN << >>
        ELSE RunParser(CHOOSE k \in finders : \A j \in finders : k <= j, lines)
  IN Found({k \in 1..Len(ParserNames) : RunParser(k, lines) # << >>})

InitConcurrent ==
  /\ route = "pdf" /\ apiKey = TRUE
  /\ request \in PdfRequests
  /\ decoder = "resolved" /\ text = AssembleText(request)
  /\ parserIdx = 1 /\ consulted = << >>
  /\ transactions = ExtractedFrom(TextLines(text))
  /\ Len(transactions) > 0
  /\ store \in Stores
  /\ pc = [u \in Uploads |-> "fetch"]
  /\ fetched = [u \in Uploads |-> FALSE]
  /\ existingTransactions = [u \in Uploads |-> << >>]
  /\ updates = [u \in Uploads |-> << >>]
  /\ newTransactions = [u \in Uploads |-> << >>]
  /\ duplicateCount = [u \in Uploads |-> Absent]
  /\ patched = [u \in Uploads |-> 0]
  /\ response = [u \in Uploads |-> NoResponse]
  /\ calls = << >>

RespondTo(u, r) ==
  /\ pc' = [pc EXCEPT ![u] = "done"]
  /\ response' = [response EXCEPT ![u] = r]

\* an upload fetches the existing transactions and reconciles
ConcurrentFetch ==
  \E u \in Uploads :
    /\ pc[u] = "fetch"
    /\ \E ok \in BOOLEAN :
         /\ calls' = Append(calls, StoreCall("GET", ok, NoId, << >>))
         /\ IF ok
            THEN \E r \in {Reconcile(store, transactions)} :
                    /\ fetched' = [fetched EXCEPT ![u] = TRUE]
                    /\ existingTransactions' = [existingTransactions EXCEPT ![u] = store]
                    /\ updates' = [updates EXCEPT ![u] = r.updates]
                    /\ newTransactions' = [newTransactions EXCEPT ![u] = r.newTransactions]
                    /\ duplicateCount' = [duplicateCount EXCEPT ![u] = r.duplicateCount]
                    /\ pc' = [pc EXCEPT ![u] = "patch"]
                    /\ UNCHANGED response
            ELSE /\ RespondTo(u, SaveErrorResponse("Failed to fetch existing transactions"))
                 /\ UNCHANGED <<fetched, existingTransactions, updates, newTransactions,
                                duplicateCount>>
    /\ UNCHANGED <<route, apiKey, request, decoder, text, parserIdx, consulted, transactions,
                   store, patched>>

\* an upload sends the next PATCH of its loop over updates
ConcurrentPatch ==
  \E u \in Uploads :
    /\ pc[u] = "patch"
    /\ patched[u] < Len(updates[u])
    /\ \E update \in {updates[u][patched[u] + 1]} :
          \E ok \in BOOLEAN :
            /\ calls' = Append(calls, StoreCall("PATCH", ok, update.id, << update.data >>))
            /\ IF ok
               THEN /\ store' = ApplyPatch(store, update.id, update.data)
                    /\ patched' = [patched EXCEPT ![u] = patched[u] + 1]
                    /\ UNCHANGED <<pc, response>>
               ELSE /\ RespondTo(u, SaveErrorResponse("Failed to update existing transaction"))
                    /\ UNCHANGED <<store, patched>>
    /\ UNCHANGED <<route, apiKey, request, decoder, text, parserIdx, consulted, transactions,
                   fetched, existingTransactions, updates, newTransactions, duplicateCount>>

\* an upload with nothing new to insert answers after its loop
ConcurrentFinish ==
  \E u \in Uploads :
    /\ pc[u] = "patch"
    /\ patched[u] = Len(updates[u])
    /\ Len(newTransactions[u]) = 0
    /\ RespondTo(u, SuccessResponse(<< >>, duplicateCount[u], Len(updates[u]),
                                    Len(updates[u]) > 0))
    /\ UNCHANGED <<route, apiKey, request, decoder, text, parserIdx, consulted, transactions,
                   store, fetched, existingTransactions, updates, newTransactions,
                   duplicateCount, patched, calls>>

\* an upload sends its bulk insert after its loop
ConcurrentBulk ==
  \E u \in Uploads :
    /\ pc[u] = "patch"
    /\ patched[u] = Len(updates[u])
    /\ Len(newTransactions[u]) > 0
    /\ \E ok \in BOOLEAN :
         /\ calls' = Append(calls, StoreCall("BULK", ok, NoId, newTransactions[u]))
         /\ IF ok
            THEN /\ store' = ApplyBulk(store, newTransactions[u])
                 /\ RespondTo(u, SuccessResponse(newTransactions[u], duplicateCount[u],
                                                 Len(updates[u]), TRUE))
            ELSE /\ RespondTo(u, SaveErrorResponse("Failed to save transactions to database"))
                 /\ UNCHANGED store
    /\ UNCHANGED <<route, apiKey, request, decoder, text, parserIdx, consulted, transactions,
                   fetched, existingTransactions, updates, newTransactions, duplicateCount,
                   patched>>

NextConcurrent ==
  \/ ConcurrentFetch
  \/ ConcurrentPatch
  \/ ConcurrentFinish
  \/ ConcurrentBulk

SpecConcurrent == InitConcurrent /\ [][NextConcurrent]_vars

(***************************************************************************)
(* The format dispatcher and the parsers on their own: extractTransactions *)
(* on the text of every statement of ParserStatements                      *)
(***************************************************************************)
InitParse ==
  /\ route = "pdf"
  /\ apiKey = TRUE
  /\ store = << >>
  /\ \E st \in ParserStatements :
       /\ request = ItemsOf(st)
       /\ text = AssembleText(ItemsOf(st))
  /\ pc = "extract" /\ decoder = "resolved" /\ parserIdx = 1
  /\ consulted = << >> /\ transactions = << >> /\ fetched = FALSE
  /\ existingTransactions = << >> /\ updates = << >> /\ newTransactions = << >>
  /\ duplicateCount = Absent /\ patched = 0 /\ calls = << >> /\ response = NoResponse

NextParse == TryParser

SpecParse == InitParse /\ [][NextParse]_vars

(***************************************************************************)
(* Properties of the reconciliation and of the upload handlers             *)
(***************************************************************************)
StoreCalls(op) == {i \in 1..Len(calls) : calls[i].op = op}
FailedCalls == {i \in 1..Len(calls) : ~calls[i].ok}
AllEmpty == Len(consulted) = Len(ParserNames) /\ \A k \in 1..Len(consulted) : consulted[k].output = << >>

\* C1: after the reconciliation the new transactions, the queued updates and
\* the duplicates add up to the submitted transactions, and the number of
\* duplicates is never negative.
C1_PartitionComplete ==
  fetched =>
    /\ Len(newTransactions) + Len(updates) + duplicateCount = Len(transactions)
    /\ duplicateCount >= 0
    /\ Len(newTransactions) <= Len(transactions)
    /\ Len(updates) <= Len(transactions)

\* C1 at work: of two submitted transactions one queued an update and the
\* other was a duplicate
C1_UpdateAndDuplicate ==
  /\ fetched /\ Len(transactions) = 2
  /\ Len(updates) = 1 /\ duplicateCount = 1 /\ Len(newTransactions) = 0

\* the record the map of existing transactions holds under the key of tx (the
\* last one stored under it), 0 when there is none
HeldFor(tx) ==
  LET Same(i) ==
        /\ existingTransactions[i].date_iso = tx.date_iso
        /\ ToLower(Trim(existingTransactions[i].place)) = ToLower(Trim(tx.place))
      Last(S) == IF S = {} THEN 0 ELSE CHOOSE i \in S : \A j \in S : j <= i
  IN Last({i \in 1..Len(existingTransactions) : Same(i)})

\* the difference C2 calls meaningful, on the amounts as decimal numbers: the
\* values lie more than one cent apart, or category or subcategory differ
MeaningfulDifference(held, tx) ==
  \/ held.value - tx.value > 1 \/ tx.value - held.value > 1
  \/ held.category # tx.category \/ held.subcategory # tx.subcategory

\* C2: every submitted transaction is classified by its key: without an
\* existing record under the key it is new; with an existing record whose
\* value differs by more than 0.01 or whose category or subcategory differs
\* exactly one update keyed by that record's id is queued; otherwise it is a
\* duplicate, neither inserted nor updated, and duplicateCount counts these.
C2_ClassifiedByKey ==
  fetched =>
    LET n == Len(transactions)
        Held(i) == existingTransactions[HeldFor(transactions[i])]
        New == {i \in 1..n : HeldFor(transactions[i]) = 0}
        Changed == {i \in 1..n : /\ i \notin New
                                  /\ MeaningfulDifference(Held(i), transactions[i])}
        Of(S) == SelectSeq([i \in 1..n |-> i], LAMBDA i : i \in S)
    IN /\ newTransactions = [k \in 1..Cardinality(New) |-> transactions[Of(New)[k]]]
       /\ Len(updates) = Cardinality(Changed)
       /\ \A k \in 1..Cardinality(Changed) :
            /\ updates[k].id = Held(Of(Changed)[k]).id
            /\ updates[k].data.value = transactions[Of(Changed)[k]].value
       /\ duplicateCount = n - Cardinality(New) - Cardinality(Changed)

\* C3: the PATCH calls are issued one per queued update, in queue order, and
\* all of them before the bulk insert; when no new transaction remains no
\* bulk insert is issued and the upload that no call failed ends in success
\* with the updated count.
C3_UpdatesBeforeInsert ==
  /\ \A i \in StoreCalls("PATCH") :
       /\ i >= 2 /\ i - 1 <= Len(updates)
       /\ calls[i - 1].op = IF i = 2 THEN "GET" ELSE "PATCH"
       /\ calls[i].id = updates[i - 1].id
       /\ calls[i].body = << updates[i - 1].data >>
  /\ \A i \in StoreCalls("BULK") :
       /\ i = Len(calls) /\ i = Len(updates) + 2
       /\ \A j \in 2..(i - 1) : calls[j].op = "PATCH" /\ calls[j].ok
       /\ calls[i].body = newTransactions /\ Len(newTransactions) > 0
  /\ (fetched /\ Len(newTransactions) = 0) =>
       /\ StoreCalls("BULK") = {}
       /\ (pc = "done" /\ FailedCalls = {}) =>
            /\ response.status = 200 /\ response.success
            /\ response.updated = Len(updates)
            /\ Cardinality(StoreCalls("PATCH")) = Len(updates)

\* C3 at work: an update was patched and then the new transaction inserted
C3_PatchThenBulk ==
  /\ Len(calls) = 3 /\ calls[2].op = "PATCH" /\ calls[3].op = "BULK"
  /\ pc = "done" /\ response.updated = 1

\* C4: the parsers are consulted in the order Amex, Standard-bank, Tabular,
\* NZ-bank; none is consulted after one returned a transaction; the result is
\* exactly the output of the last one consulted, never a merge, and empty
\* only when all four returned nothing.
C4_FirstNonEmptyWins ==
  /\ Len(consulted) <= 4
  /\ \A k \in 1..Len(consulted) :
       /\ consulted[k].parser = <<"parseAmexFormat", "parseStandardBankFormat",
                                  "parseTabularFormat", "parseNZBankFormat">>[k]
       /\ k < Len(consulted) => consulted[k].output = << >>
  /\ \E lines \in {TextLines(text)} :
       \A k \in 1..Len(consulted) : consulted[k].output = RunParser(k, lines)
  /\ pc = "extract" => transactions = << >>
  /\ (route = "pdf" /\ pc \in {"config", "fetch", "patch"}) =>
       /\ Len(consulted) >= 1
       /\ transactions = consulted[Len(consulted)].output
       /\ transactions = << >> <=> AllEmpty

\* C4 at work: Amex and Standard-bank returned nothing and Tabular won
C4_ThirdParserWins ==
  /\ pc = "config" /\ Len(consulted) = 3
  /\ transactions # << >> /\ transactions = consulted[3].output

\* C5: in the PDF upload a failed store call (GET, PATCH or bulk insert) is the
\* last call of the upload, and the upload has ended with status 500 and a
\* payload carrying every extracted transaction and their count.
C5_SaveFailureKeepsExtracted ==
  route = "pdf" =>
    \A i \in FailedCalls :
      /\ i = Len(calls)
      /\ pc = "done" /\ response.status = 500 /\ ~response.success
      /\ response.transactions = transactions
      /\ response.count = Len(transactions)

\* C5 at work: the PATCH of an update failed after two transactions had been
\* extracted
C5_FailedPatch ==
  /\ route = "pdf" /\ Len(transactions) = 2 /\ Len(calls) = 2
  /\ calls[2].op = "PATCH" /\ ~calls[2].ok /\ response.count = 2

\* C6 as stated: without the API key nothing is decoded and nothing extracted
C6_NoParsingWithoutKey ==
  ~apiKey => decoder = "pending" /\ consulted = << >> /\ transactions = << >>

\* C6: without the API key no call to the store is made and no upload
\* succeeds; the key is looked at after the parsing, so the upload that got
\* through decoding and extraction (PDF) or normalization (JSON) ends with
\* status 500 "API key not configured".
C6_KeyCheckedAfterParsing ==
  ~apiKey =>
    /\ calls = << >> /\ ~fetched
    /\ pc \in {"auth", "decode", "body", "extract", "config", "done"}
    /\ pc = "done" => response.status \in {400, 401, 500}
    /\ response.error = "API key not configured" =>
         /\ pc = "done" /\ response.status = 500
         /\ route = "pdf" => decoder = "resolved" /\ Len(consulted) >= 1
    /\ (pc = "done" /\ route = "pdf" /\ Len(consulted) >= 1) =>
         response.error = "API key not configured"
    /\ (pc = "done" /\ route = "json" /\ transactions # << >>) =>
         response.error = "API key not configured"

\* C6 at work: a statement was decoded and a transaction extracted before the
\* missing key ended the upload
C6_ExtractedThenRefused ==
  /\ ~apiKey /\ route = "pdf" /\ pc = "done" /\ decoder = "resolved"
  /\ Len(transactions) >= 1 /\ response.status = 500

\* C7: once the decoder reported an error the upload has ended with an error
\* response and no PATCH and no bulk insert is ever issued.
C7_DecodeFailureStoresNothing ==
  decoder = "error" =>
    /\ pc = "done" /\ response.status >= 400 /\ ~response.success
    /\ response.error # ""
    /\ StoreCalls("PATCH") = {} /\ StoreCalls("BULK") = {}
    /\ consulted = << >>

\* C7 at work: the decoder failed on an upload
C7_DecoderFailed ==
  decoder = "error" /\ pc = "done" /\ response.error = "Failed to parse PDF"

\* C8: when all four parsers returned nothing the upload ends in a success
\* response with count 0, never in an error response, and no PATCH and no bulk
\* insert is issued.
C8_ZeroMatchSucceeds ==
  (AllEmpty /\ pc = "done") =>
    /\ response.status = 200 /\ response.success /\ response.count = 0
    /\ StoreCalls("PATCH") = {} /\ StoreCalls("BULK") = {}

\* the transactions each line of the text yields when parser k sees it alone
AloneYields(k) ==
  LET Range(out) == {out[m] : m \in 1..Len(out)}
      Each(lines) == UNION {Range(RunParser(k, << line >>)) : line \in Range(lines)}
  IN Each(TextLines(text))

\* C9: every transaction a parser returned has a finite value above 0 and
\* below 50000, and a line with an amount out of range does not abort the
\* parse: every transaction a line yields on its own is in the output for the
\* whole text.
C9_AmountsWithinBounds ==
  \A k \in 1..Len(consulted) :
    /\ \A m \in 1..Len(consulted[k].output) :
         /\ consulted[k].output[m].value # NaN
         /\ consulted[k].output[m].value > 0
         /\ consulted[k].output[m].value < 5000000
    /\ \A tx \in AloneYields(k) : \E m \in 1..Len(consulted[k].output) : consulted[k].output[m] = tx

\* C9 at work: of two lines the one at the ceiling was dropped and the other
\* one gave the transaction
C9_DroppedAndKept ==
  /\ Len(consulted) = 1 /\ Len(consulted[1].output) = 1
  /\ TextLines(text) = << LineDirectCeiling, LineDirect >>

\* C10: every transaction the JSON upload sends to the store has a value
\* above 0 and below 50000.
C10_JsonValuesWithinBounds ==
  route = "json" =>
    \A i \in StoreCalls("PATCH") \cup StoreCalls("BULK") :
      \A m \in 1..Len(calls[i].body) :
        calls[i].body[m].value > 0 /\ calls[i].body[m].value < 5000000

\* the 0-based indexes of the lines of the text that are a transaction line
\* without amount, and of those that are an amount on its own
TransactionLineIndexes(lines) ==
  {j \in 0..(Len(lines) - 1) :
     ~transactionWithAmountPattern(lines[j + 1]).ok /\ transactionPattern(lines[j + 1]).ok}
AmountLineIndexes(lines) ==
  {j \in 0..(Len(lines) - 1) :
     /\ ~transactionWithAmountPattern(lines[j + 1]).ok
     /\ ~transactionPattern(lines[j + 1]).ok
     /\ amountPattern(lines[j + 1])}

\* C11: without a direct-mode line and with as many transaction lines as
\* retained amounts after line 50, parseAmexFormat returns one transaction per
\* transaction line, in order, the i-th with the i-th retained amount; no
\* transaction line and no amount of the first 50 lines contributes, and no
\* returned value is within a cent of the minimum payment of the header.
C11_SequentialPairsInOrder ==
  Len(consulted) = 1 =>
    \E lines \in {TextLines(text)} :
      \E pass \in {AmexFirstPass(lines)} :
        LET out == consulted[1].output
            trans == OfKind(pass, "trans")
            amounts == OfKind(pass, "amount")
            minPay == minimumPaymentAmount(lines)
        IN OfKind(pass, "direct") = << >> =>
             /\ \A i \in 1..Len(trans) :
                  /\ trans[i].index >= 50
                  /\ trans[i].index \in TransactionLineIndexes(lines)
                  /\ i > 1 => trans[i - 1].index < trans[i].index
             /\ \A i \in 1..Len(amounts) :
                  /\ amounts[i].index >= 50
                  /\ amounts[i].index \in AmountLineIndexes(lines)
                  /\ i > 1 => amounts[i - 1].index < amounts[i].index
                  /\ minPay # NoMinimumPayment =>
                       CompareGapToCent(amounts[i].value, minPay) # "less"
             /\ Len(trans) = Len(amounts) =>
                  /\ Len(out) = Len(trans)
                  /\ \A i \in 1..Len(out) :
                       /\ out[i].place = trans[i].description
                       /\ out[i].date_iso = parseDate(trans[i].date)
                       /\ out[i].value = amounts[i].value
             /\ \A m \in 1..Len(out) :
                  /\ \E i \in 1..Len(trans) : out[m].place = trans[i].description
                  /\ \E i \in 1..Len(amounts) : out[m].value = amounts[i].value

\* C11 at work: a header with a minimum payment, a transaction line and an
\* amount, then two transaction lines and two amounts paired in order
C11_TwoPairedAfterHeader ==
  /\ Len(consulted) = 1 /\ Len(consulted[1].output) = 2
  /\ TextLines(text)[1] = LineMinPayment
  /\ TextLines(text)[SummaryLines + 1] = LineTrans
  /\ TextLines(text)[SummaryLines + 2] = LineTransSpotify
  /\ consulted[1].output[1].value = 2550
  /\ consulted[1].output[2].value = 1230

\* the transactions the parsers consulted so far returned
Emitted == UNION {{consulted[k].output[m] : m \in 1..Len(consulted[k].output)} :
                    k \in 1..Len(consulted)}

\* YYYY-MM-DD read as numbers
IsoYear(iso) == DigitsToNat(SubSeq(iso, 1, 4))
IsoMonth(iso) == DigitsToNat(SubSeq(iso, 6, 7))
IsoDay(iso) == DigitsToNat(SubSeq(iso, 9, 10))
IsoShaped(iso) ==
  /\ Len(iso) = 10 /\ iso[5] = "-" /\ iso[8] = "-"
  /\ \A i \in {1, 2, 3, 4, 6, 7, 9, 10} : IsDigit(iso[i])
ValidCalendarDate(iso) ==
  /\ IsoShaped(iso)
  /\ IsoMonth(iso) \in 1..12
  /\ IsoDay(iso) \in 1..DaysInMonth(IsoYear(iso), IsoMonth(iso))
CalendarIso(y, m, d) == Pad4(y) \o <<"-">> \o Pad2(m) \o <<"-">> \o Pad2(d)

\* C12: for a valid date the statement ends on the 26th of the date's month
\* when the day is at most 26 and on the 26th of the following month
\* otherwise (December giving January of the next year), starts on the 27th
\* of the month before the closing month (January giving December of the
\* year before), and statement_id is statement_end; 2025-09-26 is in
\* 2025-08-27..2025-09-26, 2025-09-27 in 2025-09-27..2025-10-26 and
\* 2025-12-30 in 2025-12-27..2026-01-26.
C12_StatementPeriod ==
  \A tx \in Emitted :
    ValidCalendarDate(tx.date_iso) =>
      LET y == IsoYear(tx.date_iso)
          m == IsoMonth(tx.date_iso)
          d == IsoDay(tx.date_iso)
          endYear == IF d > 26 /\ m = 12 THEN y + 1 ELSE y
          endMonth == IF d <= 26 THEN m ELSE IF m = 12 THEN 1 ELSE m + 1
          startYear == IF endMonth = 1 THEN endYear - 1 ELSE endYear
          startMonth == IF endMonth = 1 THEN 12 ELSE endMonth - 1
      IN /\ tx.statement_end = CalendarIso(endYear, endMonth, 26)
         /\ tx.statement_start = CalendarIso(startYear, startMonth, 27)
         /\ tx.statement_id = tx.statement_end
         /\ tx.date_iso = CalendarIso(2025, 9, 26) =>
              /\ tx.statement_start = <<"2", "0", "2", "5", "-", "0", "8", "-", "2", "7">>
              /\ tx.statement_end = <<"2", "0", "2", "5", "-", "0", "9", "-", "2", "6">>
         /\ tx.date_iso = CalendarIso(2025, 9, 27) =>
              /\ tx.statement_start = <<"2", "0", "2", "5", "-", "0", "9", "-", "2", "7">>
              /\ tx.statement_end = <<"2", "0", "2", "5", "-", "1", "0", "-", "2", "6">>
         /\ tx.date_iso = CalendarIso(2025, 12, 30) =>
              /\ tx.statement_start = <<"2", "0", "2", "5", "-", "1", "2", "-", "2", "7">>
              /\ tx.statement_end = <<"2", "0", "2", "6", "-", "0", "1", "-", "2", "6">>

\* C12 at work: a transaction of 30 December 2025 is in the statement that
\* closes on 26 January 2026
C12_DecemberRollsOver ==
  \E tx \in Emitted :
    /\ tx.date_iso = <<"2", "0", "2", "5", "-", "1", "2", "-", "3", "0">>
    /\ tx.statement_start = <<"2", "0", "2", "5", "-", "1", "2", "-", "2", "7">>
    /\ tx.statement_end = <<"2", "0", "2", "6", "-", "0", "1", "-", "2", "6">>
    /\ tx.statement_id = <<"2", "0", "2", "6", "-", "0", "1", "-", "2", "6">>

\* C13: every transaction the parsers return has a date_iso that is a
\* calendar date (month 01..12, a day the month has); a line whose date is
\* not a calendar date gives no transaction.
C13_DatesAreCalendarDates ==
  \A tx \in Emitted : ValidCalendarDate(tx.date_iso)

\* C14: for a description whose normalized form starts with "paypal" the
\* override table comes before the general rules: when the name after the
\* prefix contains the match text of an override, the classification is the
\* one of that override, whatever general keyword the description contains.
C14_OverrideBeforeRules ==
  \A tx \in Emitted :
    \E name \in {normalize(tx.place)} :
      Slice(name, 1, 6) = <<"p", "a", "y", "p", "a", "l">> =>
        \E override \in {FirstOverride(PAYPAL_OVERRIDES,
                                        collapse(normalize(StripPaypalPrefix(tx.place))))} :
          override # NoClassification =>
            /\ tx.category = override.category
            /\ tx.subcategory = override.subcategory

\* place stands in the line from position i on, character for character,
\* between whitespace or the end of the line
StandsIn(line, place, i) ==
  /\ i + Len(place) - 1 <= Len(line)
  /\ SubSeq(line, i, i + Len(place) - 1) = place
  /\ IsWs(At(line, i - 1))
  /\ i + Len(place) - 1 = Len(line) \/ IsWs(At(line, i + Len(place)))

\* C15: the place of every transaction the parsers return is the description
\* as it stands in a line of the statement, with its runs of interior spaces
\* character for character and without leading or trailing whitespace.
C15_PlaceKeepsSpacing ==
  \E lines \in {TextLines(text)} :
    \A tx \in Emitted :
      /\ tx.place # << >> => ~IsWs(tx.place[1]) /\ ~IsWs(tx.place[Len(tx.place)])
      /\ \E j \in 1..Len(lines) : \E i \in 1..Len(lines[j]) : StandsIn(lines[j], tx.place, i)

\* C15 at work: the two spaces of "SPOTIFY  PREMIUM" are in the place of a
\* transaction matched in split mode
C15_TwoSpacesKept ==
  \E tx \in Emitted :
    tx.place = <<"S", "P", "O", "T", "I", "F", "Y", " ", " ", "P", "R", "E", "M", "I", "U", "M">>

\* same date and same place up to letter case and to whitespace at both ends
SameIdentity(a, b) ==
  a.date_iso = b.date_iso /\ ToLower(Trim(a.place)) = ToLower(Trim(b.place))

\* C16: the reconciliation takes a submitted transaction for one already
\* stored exactly when a stored record has the same date_iso and a place that
\* differs at most in letter case and in leading or trailing whitespace; a
\* difference in interior spacing or in the date makes it a new transaction.
C16_IdentityIsDateAndPlace ==
  fetched =>
    newTransactions =
      SelectSeq(transactions,
                LAMBDA tx : ~\E i \in 1..Len(existingTransactions) :
                               SameIdentity(existingTransactions[i], tx))

\* C16 at work: of three submitted or stored transactions of one merchant, the
\* one with one interior space less is new next to a stored record of the
\* same day, and one that differs in case and leading whitespace is not
C16_SpacingDistinguishes ==
  /\ fetched
  /\ \E i \in 1..Len(existingTransactions) : \E m \in 1..Len(newTransactions) :
       /\ existingTransactions[i].date_iso = newTransactions[m].date_iso
       /\ existingTransactions[i].place # newTransactions[m].place
       /\ normalize(existingTransactions[i].place) = normalize(newTransactions[m].place)
  /\ \E i \in 1..Len(existingTransactions) : \E m \in 1..Len(newTransactions) :
       /\ existingTransactions[i].date_iso # newTransactions[m].date_iso
       /\ existingTransactions[i].place = newTransactions[m].place

\* C16 at work: a submitted transaction that differs from the stored record
\* in letter case and leading whitespace only is not new
C16_CaseAndEndsIgnored ==
  /\ fetched
  /\ \E i \in 1..Len(existingTransactions) : \E m \in 1..Len(transactions) :
       /\ SameIdentity(existingTransactions[i], transactions[m])
       /\ existingTransactions[i].place # transactions[m].place
       /\ \A n \in 1..Len(newTransactions) : newTransactions[n] # transactions[m]

\* no two of the records have the same date_iso and the same lowercased
\* trimmed place
KeysDistinct(records) ==
  \A i \in 1..Len(records) : \A j \in 1..Len(records) :
    SameIdentity(records[i], records[j]) => i = j

\* C17: when the stored transactions had pairwise distinct identities before
\* a PDF upload, they have pairwise distinct identities after the upload
\* succeeded.
C17_UploadKeepsKeysDistinct ==
  (route = "pdf" /\ fetched /\ pc = "done" /\ response.success
     /\ KeysDistinct(existingTransactions))
    => KeysDistinct(store)

\* the text a line assembler gives for the items from the k-th on, line being
\* the line buffer and refY the y the buffer is compared with (no meaning
\* while the buffer is empty): the y of the first fragment of the buffer when
\* keepFirst, the y of the fragment before otherwise.  A fragment without y
\* has the y it is compared with, 0 at the start.
RECURSIVE AssembledFrom(_, _, _, _, _)
AssembledFrom(items, k, line, refY, keepFirst) ==
  IF k > Len(items) THEN (IF line = << >> THEN << >> ELSE line \o << Newline >>)
  ELSE IF ~("text" \in DOMAIN items[k] /\ items[k].text # << >>)
       THEN AssembledFrom(items, k + 1, line, refY, keepFirst)
  ELSE LET y == IF "y" \in DOMAIN items[k] THEN items[k].y
                ELSE IF line = << >> THEN 0 ELSE refY
           fragment == items[k].text \o <<" ">>
       IN IF line # << >> /\ Abs(refY - y) > YTolerance
          THEN line \o << Newline >> \o AssembledFrom(items, k + 1, fragment, y, keepFirst)
          ELSE AssembledFrom(items, k + 1, line \o fragment,
                             IF keepFirst /\ line # << >> THEN refY ELSE y, keepFirst)

\* C18 as stated: a fragment is appended exactly when its y is within 0.2 of
\* the y of the first fragment of the line buffer
C18_ComparedWithFirstOfLine ==
  (route = "pdf" /\ decoder = "resolved") =>
    text = AssembledFrom(request, 1, << >>, 0, TRUE)

\* C18: the assembler keeps the y of the fragment before (a fragment without
\* y has the y of the one before it, 0 at the start): a fragment is appended
\* to the line buffer exactly when its y is within 0.2 of that y, otherwise
\* the buffer is flushed as a line and the fragment starts the next one; the
\* last buffer is flushed at the end of the stream.
C18_ComparedWithFragmentBefore ==
  (route = "pdf" /\ decoder = "resolved") =>
    text = AssembledFrom(request, 1, << >>, 0, FALSE)

\* C18 at work: three fragments, each 0.2 below the one before, are one line
\* and the fragment further down is the second line
C18_DriftStaysOnOneLine ==
  /\ request = DriftingItems /\ decoder = "resolved"
  /\ TextLines(text) = << LineDirect, LineDirectUber >>

\* C19: when no fragment has a y, every fragment is a line of its own: n
\* text fragments give n lines.
C19_OneLinePerFragment ==
  (route = "pdf" /\ decoder = "resolved"
     /\ \A k \in 1..Len(request) : "y" \notin DOMAIN request[k])
    => Len(TextLines(text)) = Len(TextItems(request))

\* C20: in split mode every amount line gives its value to at most one
\* transaction of the output, under sequential alignment and under proximity
\* matching: the output has no more transactions of a value than there are
\* retained amount lines of that value.
C20_AmountUsedAtMostOnce ==
  Len(consulted) = 1 =>
    \E pass \in {AmexFirstPass(TextLines(text))} :
      LET out == consulted[1].output
          amounts == OfKind(pass, "amount")
      IN OfKind(pass, "direct") = << >> =>
           \A m \in 1..Len(out) :
             Cardinality({n \in 1..Len(out) : out[n].value = out[m].value})
               <= Cardinality({i \in 1..Len(amounts) : amounts[i].value = out[m].value})

\* C20 at work: four transaction lines contend for one amount and one
\* transaction is returned
C20_OneAmountOneTransaction ==
  /\ Len(consulted) = 1 /\ Len(consulted[1].output) = 1
  /\ \E pass \in {AmexFirstPass(TextLines(text))} :
       /\ Len(OfKind(pass, "trans")) = 4
       /\ Len(OfKind(pass, "amount")) = 1

\* the category rules with a keyword in the normalized text n or, collapsed,
\* in the collapsed text c
\* the keywords of every rule, normalized, and those collapsed
RuleKeywords ==
  [r \in 1..Len(CATEGORY_RULES) |->
     {keyword \in {normalize(CATEGORY_RULES[r].keywords[k]) :
                     k \in 1..Len(CATEGORY_RULES[r].keywords)} : keyword # << >>}]
RuleKeywordsCollapsed ==
  [r \in 1..Len(CATEGORY_RULES) |-> {collapse(keyword) : keyword \in RuleKeywords[r]}]

\* the rules with a keyword in the normalized text n or, collapsed, in the
\* collapsed text c
RulesHit(n, c) ==
  {r \in 1..Len(CATEGORY_RULES) :
     \/ \E keyword \in RuleKeywords[r] : Includes(n, keyword)
     \/ \E keyword \in RuleKeywordsCollapsed[r] : Includes(c, keyword)}

ClassifiedAs(tx, category, subcategory) ==
  tx.category = category /\ tx.subcategory = subcategory

\* C21: a transaction has the category and subcategory of the first rule of
\* CATEGORY_RULES, in list order, one of whose keywords is in the normalized
\* text or, collapsed, in the collapsed text; with no such rule and no
\* "paypal" at the start it is Other / General; two transactions of the same
\* description are classified alike.
C21_FirstRuleInOrderWins ==
  \A tx \in Emitted :
    /\ \E n \in {normalize(tx.place)} :
         \E hits \in {RulesHit(n, collapse(n))} :
           /\ \A r \in hits :
                (\A q \in hits : r <= q) =>
                   ClassifiedAs(tx, CATEGORY_RULES[r].category, CATEGORY_RULES[r].subcategory)
           /\ (hits = {} /\ Slice(n, 1, 6) # <<"p", "a", "y", "p", "a", "l">>) =>
                ClassifiedAs(tx, OtherGeneral.category, OtherGeneral.subcategory)
    /\ \A other \in Emitted :
         other.place = tx.place => ClassifiedAs(other, tx.category, tx.subcategory)

\* C21 at work: "uber one" has the keyword of Rideshare and a keyword of
\* Memberships, and the rule that comes first classifies it
C21_EarlierRuleClassifies ==
  \E tx \in Emitted :
    /\ tx.place = <<"u", "b", "e", "r", " ", "o", "n", "e">>
    /\ Cardinality(RulesHit(normalize(tx.place), collapse(normalize(tx.place)))) = 2
    /\ ClassifiedAs(tx, <<"T", "r", "a", "n", "s", "p", "o", "r", "t">>,
                    <<"R", "i", "d", "e", "s", "h", "a", "r", "e">>)

\* some keyword of rule r, taken as the description, is classified with the
\* category and subcategory of rule r.  A text that rule r matches contains a
\* keyword of r, normalized or collapsed, and with it every keyword that this
\* keyword contains: when each keyword of r on its own goes to an earlier
\* rule, so does every text that r matches.
ReachedByOwnKeyword(r) ==
  \E k \in 1..Len(CATEGORY_RULES[r].keywords) :
    \E classification \in {categorizeMerchant(CATEGORY_RULES[r].keywords[k])} :
      /\ classification.category = CATEGORY_RULES[r].category
      /\ classification.subcategory = CATEGORY_RULES[r].subcategory

\* C30: no category rule is shadowed: the rule whose keyword a transaction
\* has as its description classifies some description.
C30_NoRuleShadowed ==
  \A tx \in Emitted :
    \A r \in 1..Len(CATEGORY_RULES) :
      (\E k \in 1..Len(CATEGORY_RULES[r].keywords) :
         tx.place = Trim(CATEGORY_RULES[r].keywords[k]))
        => ReachedByOwnKeyword(r)

\* the whitespace after the date and the whitespace before the amount of a
\* dated line are both at least two characters wide
WideSeparators(line) ==
  \E date \in {SlashDate(line, {"/", "-"}, 4)} :
    /\ date.ok
    /\ WsRun(line, date.next) >= 2
    /\ WsBefore(line, TokenStart(line)) >= 2

\* C22: the Tabular parser accepts a line exactly when the Standard-bank
\* parser accepts it and both column separators are at least two whitespace
\* characters wide, and it gives the same transaction for it.
C22_TabularRefinesStandard ==
  Len(consulted) >= 3 =>
    \E lines \in {TextLines(text)} :
      \A j \in 1..Len(lines) :
        \E tabular \in {TabularLine(lines[j])} :
          \E standard \in {StandardBankLine(lines[j])} :
            /\ tabular.ok <=> (standard.ok /\ WideSeparators(lines[j]))
            /\ tabular.ok => tabular.tx = standard.tx

\* C23: when a line is accepted in direct mode, parseAmexFormat returns one
\* transaction per accepted direct-mode line, in line order, with the date,
\* description and amount of that line, before line 50 or after it; lines
\* with a date and a description only and lines with an amount only give
\* nothing.
C23_DirectModeOneToOne ==
  Len(consulted) = 1 =>
    \E lines \in {TextLines(text)} :
      \E direct \in {OfKind(AmexFirstPass(lines), "direct")} :
        LET out == consulted[1].output
        IN Len(direct) > 0 =>
             /\ Len(out) = Len(direct)
             /\ \A i \in 1..Len(out) :
                  \E captured \in {transactionWithAmountPattern(lines[direct[i].index + 1])} :
                    /\ captured.ok
                    /\ i > 1 => direct[i - 1].index < direct[i].index
                    /\ out[i].place = Trim(captured.description)
                    /\ out[i].value = ParseFloat(Strip(captured.amount, {","}))
                    /\ out[i].date_iso =
                         <<"2", "0">> \o captured.year \o <<"-">> \o captured.month
                           \o <<"-">> \o captured.day

\* C23 at work: a direct-mode line in the summary section and one after
\* it are the two transactions; the transaction line and the amount
\* between them give none
C23_DirectBeforeAndAfterSummary ==
  /\ Len(consulted) = 1 /\ Len(consulted[1].output) = 2
  /\ \E lines \in {TextLines(text)} :
       /\ Len(lines) = SummaryLines + 3
       /\ lines[1] = LineDirect /\ lines[SummaryLines + 1] = LineTrans
       /\ lines[SummaryLines + 2] = LineAmountUber /\ lines[SummaryLines + 3] = LineDirectUber
  /\ consulted[1].output[1].value = 1002
  /\ consulted[1].output[2].value = 2550

\* whether chosen (0 for none) is the amount the proximity rule gives the
\* transaction line at index t among the amounts of free: the nearest of
\* those 1..5 lines after t, else the nearest of those 1..30 lines before t,
\* else one on line t, else none
ProximityRule(amounts, t, free, chosen) ==
  LET after == {i \in free : amounts[i].index - t \in 1..5}
      before == {i \in free : t - amounts[i].index \in 1..30}
      same == {i \in free : amounts[i].index = t}
  IN IF after # {}
     THEN chosen \in after /\ \A j \in after : amounts[chosen].index <= amounts[j].index
     ELSE IF before # {}
     THEN chosen \in before /\ \A j \in before : amounts[chosen].index >= amounts[j].index
     ELSE IF same # {} THEN chosen \in same
     ELSE chosen = 0

\* the output is the transaction lines that were given an amount, in line
\* order, each with the amount chosen for it
PairedAs(out, trans, amounts, chosen) ==
  \E matched \in {SelectSeq([t \in 1..Len(trans) |-> t], LAMBDA t : chosen[t] # 0)} :
    /\ Len(out) = Len(matched)
    /\ \A m \in 1..Len(out) :
         /\ out[m].place = trans[matched[m]].description
         /\ out[m].date_iso = parseDate(trans[matched[m]].date)
         /\ out[m].value = amounts[chosen[matched[m]]].value

\* C24: under proximity matching the transaction lines are taken in line
\* order; each is given, among the amounts not given to a line before it, the
\* nearest within 5 lines after it, else the nearest within 30 lines before
\* it, else one on its own line, and gives no transaction when there is none.
C24_ProximityOrder ==
  Len(consulted) = 1 =>
    \E pass \in {AmexFirstPass(TextLines(text))} :
      LET out == consulted[1].output
          trans == OfKind(pass, "trans")
          amounts == OfKind(pass, "amount")
          sequential == /\ Len(trans) > 0 /\ Len(amounts) > 0
                        /\ Abs(Len(trans) - Len(amounts)) <= 2
      IN (OfKind(pass, "direct") = << >> /\ ~sequential) =>
           \E chosen \in [1..Len(trans) -> 0..Len(amounts)] :
             /\ \A t \in 1..Len(trans) :
                  ProximityRule(amounts, trans[t].index,
                                (1..Len(amounts)) \ {chosen[u] : u \in 1..(t - 1)},
                                chosen[t])
             /\ PairedAs(out, trans, amounts, chosen)

\* C24 at work: with an amount on the line before and one on the line after,
\* the transaction line takes the one after; with the next amount six lines
\* after, it takes the one before
C24_AfterPreferredWithinWindow ==
  /\ Len(consulted) = 1 /\ Len(consulted[1].output) = 1
  /\ \E lines \in {TextLines(text)} :
       /\ Len(lines) > SummaryLines + 2
       /\ lines[SummaryLines + 1] = LineAmountSmall /\ lines[SummaryLines + 2] = LineTrans
       /\ \/ lines[SummaryLines + 3] = LineAmountUber /\ consulted[1].output[1].value = 2550
          \/ lines[SummaryLines + 3] = LineOther /\ consulted[1].output[1].value = 1230

\* C25: when sequential alignment is used and the amounts are at least as
\* many as the transaction lines, the output has one transaction for every
\* collected transaction line.
C25_SequentialCoversEveryLine ==
  Len(consulted) >= 1 =>
    \E pass \in {AmexFirstPass(TextLines(text))} :
      LET trans == OfKind(pass, "trans")
          amounts == OfKind(pass, "amount")
      IN (/\ OfKind(pass, "direct") = << >>
          /\ Len(trans) > 0 /\ Len(amounts) > 0
          /\ Abs(Len(trans) - Len(amounts)) <= 2
          /\ Len(amounts) >= Len(trans)) =>
           Len(consulted[1].output) = Len(trans)

\* a calendar date as a number that orders dates: YYYYMMDD
DateNumber(iso) == IsoYear(iso) * 10000 + IsoMonth(iso) * 100 + IsoDay(iso)

\* the calendar day after a calendar date
NextDay(iso) ==
  IF IsoDay(iso) < DaysInMonth(IsoYear(iso), IsoMonth(iso))
  THEN CalendarIso(IsoYear(iso), IsoMonth(iso), IsoDay(iso) + 1)
  ELSE IF IsoMonth(iso) < 12 THEN CalendarIso(IsoYear(iso), IsoMonth(iso) + 1, 1)
  ELSE CalendarIso(IsoYear(iso) + 1, 1, 1)

\* the calendar dates from one date to another, both included
RECURSIVE DatesFromTo(_, _)
DatesFromTo(first, last) ==
  IF DateNumber(first) > DateNumber(last) THEN {}
  ELSE {first} \cup DatesFromTo(NextDay(first), last)

\* the periods of the transactions the parsers returned for valid dates
EmittedPeriods ==
  {[statement_id |-> tx.statement_id, statement_start |-> tx.statement_start,
    statement_end |-> tx.statement_end] : tx \in {e \in Emitted : ValidCalendarDate(e.date_iso)}}

\* C29: the period of a valid date contains the date; every date of the
\* period, its first and its last day included, has that same period; the
\* day after the last day of the period is the first day of the period it is
\* in, so that periods neither overlap nor leave a gap.
C29_PeriodsPartitionCalendar ==
  /\ \A tx \in Emitted :
       ValidCalendarDate(tx.date_iso) =>
         /\ ValidCalendarDate(tx.statement_start) /\ ValidCalendarDate(tx.statement_end)
         /\ DateNumber(tx.statement_start) <= DateNumber(tx.date_iso)
         /\ DateNumber(tx.date_iso) <= DateNumber(tx.statement_end)
  /\ \A period \in EmittedPeriods :
       /\ computeStatementMetadata(period.statement_start) = period
       /\ computeStatementMetadata(period.statement_end) = period
       /\ \A inside \in DatesFromTo(period.statement_start, period.statement_end) :
            computeStatementMetadata(inside) = period
       /\ \E after \in {NextDay(period.statement_end)} :
            /\ computeStatementMetadata(after).statement_start = after
            /\ computeStatementMetadata(after) # period

\* C29 at work: a transaction of 27 December 2024, the first day of the
\* period that ends on 26 January 2025, and one of 26 February 2024, the last
\* day of its period
C29_FirstAndLastDayOfPeriod ==
  \E tx \in Emitted :
    \/ /\ tx.date_iso = CalendarIso(2024, 12, 27)
       /\ tx.statement_start = tx.date_iso
       /\ tx.statement_end = CalendarIso(2025, 1, 26)
    \/ /\ tx.date_iso = CalendarIso(2024, 2, 26)
       /\ tx.statement_end = tx.date_iso
       /\ tx.statement_start = CalendarIso(2024, 1, 27)

\* C28: an upload that ends in the error response of the save step after a
\* failed PATCH or bulk insert leaves the store as it found it, and a failed
\* PATCH is the last call of the upload.
C28_FailedUploadLeavesStoreUnchanged ==
  (/\ pc = "done" /\ fetched
   /\ Len(calls) > 0 /\ ~calls[Len(calls)].ok
   /\ calls[Len(calls)].op \in {"PATCH", "BULK"}) =>
     /\ response.status = 500
     /\ \A k \in 1..(Len(calls) - 1) : calls[k].ok
     /\ store = existingTransactions

\* C26: when a list uploaded successfully is uploaded again against the
\* store as the first upload left it, the second upload issues no PATCH and
\* no bulk insert, counts every transaction as a duplicate and leaves the
\* store as it found it, also when transactions of the list share a key.
C26_ReuploadIsIdempotent ==
  (pc = "done" /\ response.success /\ Cardinality(Fetches) = 2) =>
    /\ \A k \in 1..Len(calls) :
         (\A g \in Fetches : g <= k) => calls[k].op = "GET"
    /\ response.duplicateCount = Len(transactions)
    /\ store = existingTransactions

\* C27: when two uploads of one statement have run at the same time against
\* one store, whatever the order of their calls, the store holds at most one
\* record for each key of the statement; stated for a statement without
\* repeated keys and uploads that each fetched a store without repeated keys.
C27_ConcurrentUploadsStoreOnce ==
  (/\ \A u \in Uploads : pc[u] = "done" /\ fetched[u]
                           /\ KeysDistinct(existingTransactions[u])
   /\ KeysDistinct(transactions)) =>
     \A t \in 1..Len(transactions) :
       Cardinality({i \in 1..Len(store) : SameIdentity(store[i], transactions[t])}) <= 1

====
